---- MODULE Spec2Model ----
(***************************************************************************)
(* Delivery resolution and pricing pipeline of delivery-billing.           *)
(*                                                                         *)
(* Spec        the upload lifecycle: POST /upload/:id/process requests,    *)
(*             their background tasks and watchdogs, the intake of the     *)
(*             file and address corrections, for one upload of one account *)
(* SpecFair    the same on a datastore without faults, under the fairness  *)
(*             of the event loop                                           *)
(* SpecCredit  consumeCreditsOrFail called concurrently on one account     *)
(* SpecCreditFair  the same, every call in progress taking its next step   *)
(* SpecResolve DistanceService.getRouteDistanceKm over one address pair    *)
(* SpecPrice   the two calculatePrice functions over bounded tier lists    *)
(* SpecApply   PricingService.applyPricingToUpload over the legs a run     *)
(*             left, with datastore faults                                 *)
(* SpecRound   the amounts PricingService.calculatePrice returns for one   *)
(*             tier whose unit price has a third decimal                   *)
(* SpecLegs    the loop of ProcessingService.processUpload that resolves   *)
(*             each leg through getRouteDistanceKm and prepares its row    *)
(*                                                                         *)
(* Every await of the source is one atomic step: the datastore operation   *)
(* it waits for together with the synchronous code that follows it up to   *)
(* the next await.                                                         *)
(***************************************************************************)
EXTENDS Integers, Sequences, FiniteSets, TLC

VARIABLES
    status,          \* uploads.status of the upload
    ingest,          \* position of uploadFile for the upload
    pendingValid,    \* pending_deliveries rows with is_valid = true
    pendingInvalid,  \* pending_deliveries rows with is_valid = false
    processingLocks, \* the module-level Set processingLocks
    credits,         \* profiles.credits_remaining of the owner account
    pc,              \* position of each processUpload request / consume call
    statusAtStart,   \* uploads.status when the request in flight was received
    amount,          \* deliveriesToProcess.length / amount of the consume call
    current,         \* the balance last read by the consume call
    cres,            \* outcome of the consume call
    watchdog,        \* the request's watchdog timer
    task,            \* position of the request's background task
    resp,            \* the answer the request returned
    run,             \* the locals of each background task's processUpload run
    legRows,         \* number of rows of table deliveries for the upload
    granted,         \* the balance the account started with
    spent,           \* the sum of the amounts of the consume calls that returned
    routeCache,      \* table route_cache: normalized pair -> row
    apiKey,          \* process.env.GOOGLE_MAPS_API_KEY is set
    rpc,             \* position of the getRouteDistanceKm call
    originAddress,   \* its arguments, as passed
    destinationAddress,
    cached,          \* the row its cache lookup returned
    called,          \* the provider was called during this call
    msg,             \* the error message the call is about to store
    meters,          \* the distance the call is about to store
    rres,            \* what the call returned or threw
    tiers,           \* the pricing grid given to calculatePrice
    distanceKm,      \* the distance given to calculatePrice
    ctlPrice,        \* result of UploadController.calculatePrice
    svcPrice,        \* result of PricingService.calculatePrice
    pricing_config,  \* table pricing_config: the rows of every upload
    deliveries,      \* table deliveries of the upload, as the pricing service sees it
    clients,         \* table clients of the upload: id -> totals
    uploadTotals,    \* the totals columns of the uploads row
    applyLog,        \* what the applyPricingToUpload calls returned or threw, in order
    legs,            \* the deliveries of the clients, in the order the run visits them
    ppc,             \* position of the prepare_all loop of a run
    deliveriesRowsToInsert, \* the rows the loop has prepared so far
    prepLog,         \* for each leg prepared: what the loop did to resolve it
    dbFaults,        \* the datastore may fail a call (it never changes)
    quote            \* one tier priced on its own, its price in tenths of a cent

uploadVars == <<status, ingest, pendingValid, pendingInvalid, processingLocks>>
runVars == <<run, legRows>>
reqVars == <<pc, statusAtStart, watchdog, task, resp, runVars>>
creditVars == <<credits, amount, current, cres, granted, spent>>
\* what the steps of the upload, of the resolver and of the pricing of legs
\* leave alone
sideVars == <<dbFaults, quote>>
resolveVars == <<routeCache, apiKey, rpc, originAddress, destinationAddress, cached,
                 called, msg, meters, rres, sideVars>>
prepVars == <<legs, ppc, deliveriesRowsToInsert, prepLog>>
billVars == <<pricing_config, deliveries, clients, uploadTotals, applyLog, prepVars>>
priceVars == <<tiers, distanceKm, ctlPrice, svcPrice, billVars, sideVars>>
vars == <<uploadVars, reqVars, creditVars, resolveVars, priceVars>>

\* ------------------------------------------------------------------ bounds
NReq == 2          \* processUpload requests / consume calls
MaxRows == 1       \* rows of the uploaded file
MaxCredits == 2    \* initial credit balance
MaxAddrLen == 2    \* characters of a destination address
MaxMeters == 2     \* distance the routing provider may answer
MaxTiers == 2      \* tiers of a pricing grid
MaxKm == 3         \* tier boundaries and leg distances
MaxLegs == 2       \* legs of the upload that is priced
MaxApplies == 2    \* applyPricingToUpload calls
MaxPrepLegs == 2   \* legs the prepare_all loop goes through
MaxMills == 40     \* unit price of the tier priced on its own, in tenths of a cent

Requests == 1..NReq
Upload == "u1"
Owner == "owner"
Users == {Owner, "other"}

\* chunkArray(deliveriesRowsToInsert, 200)
ChunkRows == 200

\* a task that is not running: deliveries.length, clientNames.length,
\* deliveriesRowsToInsert.length, the rows inserted so far, whether the
\* client counts were written
NoRun == [legs |-> 0, clients |-> 0, rows |-> 0, inserted |-> 0, counted |-> FALSE]

Statuses == {"processing", "pending_validation", "ready", "distances_done", "failed"}

\* ------------------------------------------------------------- datastore
\* A datastore call either takes effect or fails with an error; a datastore
\* without faults accepts every call.
DbOutcomes == IF dbFaults THEN {TRUE, FALSE} ELSE {TRUE}

\* A step of the run that is not a datastore call completes or throws.
StepOutcomes == {TRUE, FALSE}

\* databaseService.updateUpload(uploadId, {status: s})
UpdateUploadStatus(s) == status' = s

\* ---------------------------------------------------------------- intake
\* createUpload inserts the row with status 'processing'; Init is the state
\* right after it.
\* no tier priced on its own
NoQuote == [price |-> 0, tva_rate |-> 0, result |-> [kind |-> "none"]]

InitRows ==
    /\ status = "processing"
    /\ ingest = "created"
    /\ pendingValid = 0
    /\ pendingInvalid = 0
    /\ processingLocks = {}

\* the upload just created, on a datastore that may fail
InitUpload ==
    /\ InitRows
    /\ dbFaults = TRUE
    /\ quote = NoQuote

InitRequests ==
    /\ pc = [r \in Requests |-> "idle"]
    /\ statusAtStart = [r \in Requests |-> "none"]
    /\ watchdog = [r \in Requests |-> "none"]
    /\ task = [r \in Requests |-> "none"]
    /\ resp = [r \in Requests |-> "none"]
    /\ run = [r \in Requests |-> NoRun]
    /\ legRows = 0

InitCalls ==
    /\ amount = [r \in Requests |-> 0]
    /\ current = [r \in Requests |-> 0]
    /\ cres = [r \in Requests |-> "none"]

\* uploadFile step 4: validation and batch insert of pending_deliveries
UploadInsertPending ==
    /\ ingest = "created"
    /\ \E v \in 0..MaxRows, i \in 0..MaxRows :
        /\ v + i >= 1
        /\ v + i <= MaxRows
        /\ pendingValid' = v
        /\ pendingInvalid' = i
        /\ ingest' = IF i > 0 THEN "inserted_invalid" ELSE "inserted_valid"
    /\ UNCHANGED <<status, processingLocks, reqVars, creditVars>>
    /\ UNCHANGED <<runVars, resolveVars, priceVars>>

\* uploadFile step 5: status from the invalidCount counted in step 4
UploadSetStatus ==
    /\ ingest \in {"inserted_invalid", "inserted_valid"}
    /\ status' = IF ingest = "inserted_invalid" THEN "pending_validation" ELSE "ready"
    /\ ingest' = "done"
    /\ UNCHANGED <<pendingValid, pendingInvalid, processingLocks, reqVars, creditVars>>
    /\ UNCHANGED <<runVars, resolveVars, priceVars>>

\* fixAddress with a correction that validates: the row becomes valid
FixAddress ==
    /\ pendingInvalid > 0
    /\ pendingInvalid' = pendingInvalid - 1
    /\ pendingValid' = pendingValid + 1
    /\ UNCHANGED <<status, ingest, processingLocks, reqVars, creditVars>>
    /\ UNCHANGED <<runVars, resolveVars, priceVars>>

\* ------------------------------------------------- processUpload request
\* clearTimeout(watchdog); watchdog = null. It cancels a timer that has not
\* fired yet and does nothing to one whose callback has already started.
ClearTimeout(w) == IF w = "armed" THEN "none" ELSE w

\* the outer catch of processUpload: disarm the watchdog, release the lock,
\* rethrow (ForbiddenException as such, anything else as BadRequest)
Catch(r, answer) ==
    /\ watchdog' = [watchdog EXCEPT ![r] = ClearTimeout(@)]
    /\ processingLocks' = processingLocks \ {Upload}
    /\ pc' = [pc EXCEPT ![r] = "returned"]
    /\ resp' = [resp EXCEPT ![r] = answer]
    /\ statusAtStart' = [statusAtStart EXCEPT ![r] = "none"]

\* a return statement inside the try block: the function has no finally, so
\* neither the lock nor the watchdog is touched
Return(r, answer) ==
    /\ pc' = [pc EXCEPT ![r] = "returned"]
    /\ resp' = [resp EXCEPT ![r] = answer]
    /\ statusAtStart' = [statusAtStart EXCEPT ![r] = "none"]
    /\ UNCHANGED <<watchdog, processingLocks>>

\* a lock test that never finds the lock
LockHeld_Blind == FALSE

\* processingLocks.has(uploadId)
LockHeld == Upload \in processingLocks

\* authentication, then the lock test, processingLocks.add and setTimeout,
\* which run without an await between them
\* (request slots are taken in order: slot r after slot r - 1)
ProcessUploadLock(r) ==
    /\ pc[r] = "idle"
    /\ IF r = 1 THEN TRUE ELSE pc[r - 1] # "idle"
    /\ IF LockHeld
       THEN /\ pc' = [pc EXCEPT ![r] = "returned"]
            /\ resp' = [resp EXCEPT ![r] = "already_running_lock"]
            /\ UNCHANGED <<processingLocks, watchdog, statusAtStart>>
       ELSE /\ processingLocks' = processingLocks \cup {Upload}
            /\ watchdog' = [watchdog EXCEPT ![r] = "armed"]
            /\ pc' = [pc EXCEPT ![r] = "read_upload"]
            /\ statusAtStart' = [statusAtStart EXCEPT ![r] = status]
            /\ UNCHANGED resp
    /\ UNCHANGED <<status, ingest, pendingValid, pendingInvalid, task, creditVars>>
    /\ UNCHANGED <<runVars, resolveVars, priceVars>>

\* select id, status, user_id; the ownership check against the request's
\* user u; the two status gates
ReadUpload(r) ==
    /\ pc[r] = "read_upload"
    /\ \E ok \in DbOutcomes, u \in Users :
        IF ~ok THEN Catch(r, "bad_request")
        ELSE IF u # Owner THEN Catch(r, "forbidden")
        ELSE IF status = "processing" THEN Return(r, "already_running")
        ELSE IF status = "distances_done" THEN Return(r, "already_done")
        ELSE /\ pc' = [pc EXCEPT ![r] = "set_processing"]
             /\ UNCHANGED <<resp, watchdog, processingLocks, statusAtStart>>
    /\ UNCHANGED <<status, ingest, pendingValid, pendingInvalid, task, creditVars>>
    /\ UNCHANGED <<runVars, resolveVars, priceVars>>

\* the request is over and nothing of it is left running: its slot is free
\* for the next request
Forget(r) ==
    /\ pc[r] = "returned"
    /\ watchdog[r] = "none"
    /\ task[r] = "none"
    /\ IF r = NReq THEN TRUE ELSE pc[r + 1] = "idle"
    /\ pc' = [pc EXCEPT ![r] = "idle"]
    /\ resp' = [resp EXCEPT ![r] = "none"]
    /\ UNCHANGED <<uploadVars, statusAtStart, watchdog, task, creditVars>>
    /\ UNCHANGED <<runVars, resolveVars, priceVars>>

\* updateUpload(uploadId, {status: 'processing'})
SetProcessing(r) ==
    /\ pc[r] = "set_processing"
    /\ \E ok \in DbOutcomes :
        IF ok
        THEN /\ UpdateUploadStatus("processing")
             /\ pc' = [pc EXCEPT ![r] = "read_invalid"]
             /\ UNCHANGED <<resp, watchdog, processingLocks, statusAtStart>>
        ELSE /\ Catch(r, "bad_request")
             /\ UNCHANGED status
    /\ UNCHANGED <<ingest, pendingValid, pendingInvalid, task, creditVars>>
    /\ UNCHANGED <<runVars, resolveVars, priceVars>>

\* getInvalidDeliveriesByUpload
ReadInvalid(r) ==
    /\ pc[r] = "read_invalid"
    /\ \E ok \in DbOutcomes :
        IF ~ok THEN Catch(r, "bad_request")
        ELSE /\ pc' = [pc EXCEPT ![r] =
                    IF pendingInvalid > 0 THEN "set_pending" ELSE "read_pending"]
             /\ UNCHANGED <<resp, watchdog, processingLocks, statusAtStart>>
    /\ UNCHANGED <<status, ingest, pendingValid, pendingInvalid, 
                   task, creditVars>>
    /\ UNCHANGED <<runVars, resolveVars, priceVars>>

\* updateUpload(uploadId, {status: 'pending_validation'}) and the rejection
SetPendingValidation(r) ==
    /\ pc[r] = "set_pending"
    /\ \E ok \in DbOutcomes :
        IF ok
        THEN /\ UpdateUploadStatus("pending_validation")
             /\ Return(r, "rejected")
        ELSE /\ Catch(r, "bad_request")
             /\ UNCHANGED status
    /\ UNCHANGED <<ingest, pendingValid, pendingInvalid, task, creditVars>>
    /\ UNCHANGED <<runVars, resolveVars, priceVars>>

\* -------------------------------------------------- consumeCreditsOrFail
\* the call ends (its local `current` with it)
ConsumeEnd(r, outcome) ==
    /\ cres' = [cres EXCEPT ![r] = outcome]
    /\ pc' = [pc EXCEPT ![r] = "credit_done"]
    /\ current' = [current EXCEPT ![r] = 0]

\* entry of consumeCreditsOrFail(userId, n): nothing to do for n <= 0
ConsumeBegin(r, n) ==
    /\ amount' = [amount EXCEPT ![r] = n]
    /\ IF n <= 0
       THEN ConsumeEnd(r, "ok")
       ELSE /\ cres' = [cres EXCEPT ![r] = "none"]
            /\ pc' = [pc EXCEPT ![r] = "credit_read1"]
            /\ UNCHANGED current
    /\ UNCHANGED <<credits, granted, spent>>

\* the caller is past the call: its locals are gone
ConsumeReturn(r) ==
    /\ amount' = [amount EXCEPT ![r] = 0]
    /\ current' = [current EXCEPT ![r] = 0]
    /\ cres' = [cres EXCEPT ![r] = "none"]
    /\ UNCHANGED <<credits, granted, spent>>

\* a read that does not compare the balance with the amount
ReadBalance_NoTest(r, here, next) ==
    /\ pc[r] = here
    /\ \E ok \in DbOutcomes :
        IF ~ok
        THEN ConsumeEnd(r, "error")
        ELSE /\ current' = [current EXCEPT ![r] = credits]
             /\ pc' = [pc EXCEPT ![r] = next]
             /\ UNCHANGED cres
    /\ UNCHANGED <<credits, amount, granted, spent>>

\* select credits_remaining, then the test current < amount
ReadBalance(r, here, next) ==
    /\ pc[r] = here
    /\ \E ok \in DbOutcomes :
        IF ~ok
        THEN ConsumeEnd(r, "error")
        ELSE IF credits < amount[r]
        THEN ConsumeEnd(r, "insufficient")
        ELSE /\ current' = [current EXCEPT ![r] = credits]
             /\ pc' = [pc EXCEPT ![r] = next]
             /\ UNCHANGED cres
    /\ UNCHANGED <<credits, amount, granted, spent>>

\* an update without the filter on the expected balance
CasMatches_Unconditional(r) == TRUE

\* the row filter of attemptUpdate: .eq('credits_remaining', expectedCurrent)
CasMatches(r) == credits = current[r]

\* an update that is applied although the call reports it as failed
AttemptUpdate_AppliedOnError(r, here, lost) ==
    /\ pc[r] = here
    /\ \E ok \in DbOutcomes :
        IF ~ok
        THEN /\ ConsumeEnd(r, "error")
             /\ credits' = current[r] - amount[r]
             /\ UNCHANGED spent
        ELSE IF CasMatches(r)
        THEN /\ credits' = current[r] - amount[r]
             /\ ConsumeEnd(r, "ok")
             /\ spent' = spent + amount[r]
        ELSE /\ UNCHANGED <<credits, spent>>
             /\ IF lost = "credit_done"
                THEN ConsumeEnd(r, "exhausted")
                ELSE pc' = [pc EXCEPT ![r] = lost] /\ UNCHANGED <<cres, current>>
    /\ UNCHANGED <<amount, granted>>

\* attemptUpdate(expectedCurrent): update ... where credits_remaining =
\* expectedCurrent; `lost` is where a call whose update hit no row goes on
AttemptUpdate(r, here, lost) ==
    /\ pc[r] = here
    /\ \E ok \in DbOutcomes :
        IF ~ok
        THEN ConsumeEnd(r, "error") /\ UNCHANGED <<credits, spent>>
        ELSE IF CasMatches(r)
        THEN /\ credits' = current[r] - amount[r]
             /\ ConsumeEnd(r, "ok")
             /\ spent' = spent + amount[r]
        ELSE /\ UNCHANGED <<credits, spent>>
             /\ IF lost = "credit_done"
                THEN ConsumeEnd(r, "exhausted")
                ELSE pc' = [pc EXCEPT ![r] = lost] /\ UNCHANGED <<cres, current>>
    /\ UNCHANGED <<amount, granted>>

CreditRead1(r) == ReadBalance(r, "credit_read1", "credit_cas1")
CreditCas1(r) == AttemptUpdate(r, "credit_cas1", "credit_read2")
CreditRead2(r) == ReadBalance(r, "credit_read2", "credit_cas2")
\* a call that reads again after every lost update
CreditCas2_Again(r) == AttemptUpdate(r, "credit_cas2", "credit_read2")

CreditCas2(r) == AttemptUpdate(r, "credit_cas2", "credit_done")

\* one step of the consume call of r, whichever it is
ConsumeStep(r) ==
    \/ CreditRead1(r)
    \/ CreditCas1(r)
    \/ CreditRead2(r)
    \/ CreditCas2(r)

\* ------------------------------------- processUpload request, continued
\* getPendingDeliveriesByUpload (every pending row of the upload), then the
\* call of consumeCreditsOrFail(userId, deliveriesToProcess.length)
ReadPending(r) ==
    /\ pc[r] = "read_pending"
    /\ \E ok \in DbOutcomes :
        IF ok
        THEN /\ ConsumeBegin(r, pendingValid + pendingInvalid)
             /\ UNCHANGED <<resp, watchdog, processingLocks, statusAtStart>>
        ELSE /\ Catch(r, "bad_request")
             /\ UNCHANGED creditVars
    /\ UNCHANGED <<status, ingest, pendingValid, pendingInvalid, 
                   task>>
    /\ UNCHANGED <<runVars, resolveVars, priceVars>>

\* the consume call of the request
RequestCredit(r) ==
    /\ ConsumeStep(r)
    /\ UNCHANGED <<uploadVars, statusAtStart, watchdog, task, resp>>
    /\ UNCHANGED <<runVars, resolveVars, priceVars>>

\* a task started whatever the consume call gave
LaunchTask_Unpaid(r) ==
    /\ pc[r] = "credit_done"
    /\ task' = [task EXCEPT ![r] = "fetch"]
    /\ run' = [run EXCEPT ![r] = [NoRun EXCEPT !.legs = amount[r]]]
    /\ Return(r, "launched")
    /\ ConsumeReturn(r)
    /\ UNCHANGED <<status, ingest, pendingValid, pendingInvalid, legRows>>
    /\ UNCHANGED <<resolveVars, priceVars>>

\* consume succeeded: the async task is started (it runs up to its first
\* await, the fetch of the upload) and the request answers 'Traitement lance'
LaunchTask(r) ==
    /\ pc[r] = "credit_done"
    /\ cres[r] = "ok"
    /\ task' = [task EXCEPT ![r] = "fetch"]
    /\ run' = [run EXCEPT ![r] = [NoRun EXCEPT !.legs = amount[r]]]
    /\ Return(r, "launched")
    /\ ConsumeReturn(r)
    /\ UNCHANGED <<status, ingest, pendingValid, pendingInvalid, legRows>>
    /\ UNCHANGED <<resolveVars, priceVars>>

\* a credit failure answered from inside the try: lock and watchdog stay
CreditFailReset_NoCatch(r) ==
    /\ pc[r] = "credit_done"
    /\ cres[r] \in {"insufficient", "exhausted", "error"}
    /\ \E ok \in DbOutcomes :
        /\ IF ok THEN UpdateUploadStatus("ready") ELSE UNCHANGED status
        /\ Return(r, IF ok /\ cres[r] = "insufficient" THEN "insufficient_credits" ELSE "bad_request")
    /\ ConsumeReturn(r)
    /\ UNCHANGED <<ingest, pendingValid, pendingInvalid, task>>
    /\ UNCHANGED <<runVars, resolveVars, priceVars>>

\* consume threw: updateUpload(uploadId, {status: 'ready'}), then the outer
\* catch (also reached when that update itself throws); the answer is the
\* ForbiddenException of consumeCreditsOrFail or a BadRequestException
CreditFailReset(r) ==
    /\ pc[r] = "credit_done"
    /\ cres[r] \in {"insufficient", "exhausted", "error"}
    /\ \E ok \in DbOutcomes :
        /\ IF ok THEN UpdateUploadStatus("ready") ELSE UNCHANGED status
        /\ Catch(r, IF ok /\ cres[r] = "insufficient" THEN "insufficient_credits" ELSE "bad_request")
    /\ ConsumeReturn(r)
    /\ UNCHANGED <<ingest, pendingValid, pendingInvalid, task>>
    /\ UNCHANGED <<runVars, resolveVars, priceVars>>

\* -------------------------------------------------------- background task
\* the finally of the async task: disarm the watchdog, delete the lock
\* a finally of the async task that leaves the lock in the set
TaskFinally_KeepsLock(r) ==
    /\ watchdog' = [watchdog EXCEPT ![r] = ClearTimeout(@)]
    /\ UNCHANGED processingLocks
    /\ task' = [task EXCEPT ![r] = "none"]
    /\ run' = [run EXCEPT ![r] = NoRun]

TaskFinally(r) ==
    /\ watchdog' = [watchdog EXCEPT ![r] = ClearTimeout(@)]
    /\ processingLocks' = processingLocks \ {Upload}
    /\ task' = [task EXCEPT ![r] = "none"]
    /\ run' = [run EXCEPT ![r] = NoRun]

TaskGoto(r, next) ==
    /\ task' = [task EXCEPT ![r] = next]
    /\ UNCHANGED <<watchdog, processingLocks>>

\* ProcessingService.processUpload: getUploadById and the 'already done'
\* exit, then steps 1 to 4 of the run (the client groups, their upsert, their
\* ids, the distances and the rows to insert): they complete, the legs
\* falling into one or more client groups, or one of them throws
TaskFetch(r) ==
    /\ task[r] = "fetch"
    /\ \E ok \in DbOutcomes, work \in StepOutcomes,
          groups \in (IF run[r].legs = 0 THEN {0} ELSE 1..run[r].legs) :
        /\ TaskGoto(r, IF ~ok THEN "ps_failed"
                       ELSE IF status = "distances_done" THEN "delete_pending"
                       ELSE IF work THEN "cleanup" ELSE "ps_failed")
        /\ run' = [run EXCEPT
                       ![r].clients = IF ok /\ status # "distances_done" THEN groups ELSE @,
                       ![r].rows = IF ok /\ status # "distances_done" /\ work
                                   THEN run[r].legs ELSE @]
    /\ UNCHANGED <<status, ingest, pendingValid, pendingInvalid, pc, statusAtStart, resp, creditVars>>
    /\ UNCHANGED <<legRows, resolveVars, priceVars>>

\* deleteDeliveriesByUpload: every leg of the upload is deleted
TaskCleanup(r) ==
    /\ task[r] = "cleanup"
    /\ \E ok \in DbOutcomes :
        IF ok
        THEN /\ legRows' = 0
             /\ TaskGoto(r, IF run[r].rows = 0 THEN "client_totals" ELSE "insert")
        ELSE /\ UNCHANGED legRows
             /\ TaskGoto(r, "ps_failed")
    /\ UNCHANGED <<status, ingest, pendingValid, pendingInvalid, pc, statusAtStart, resp,
                   creditVars, run>>
    /\ UNCHANGED <<resolveVars, priceVars>>

\* the rows of the next chunk
NextChunk(r) ==
    IF run[r].rows - run[r].inserted < ChunkRows
    THEN run[r].rows - run[r].inserted ELSE ChunkRows

\* step 5 without its insert
TaskInsertBatch_Skips(r) ==
    /\ task[r] = "insert"
    /\ TaskGoto(r, "client_totals")
    /\ UNCHANGED <<status, ingest, pendingValid, pendingInvalid, pc, statusAtStart, resp,
                   creditVars>>
    /\ UNCHANGED <<runVars, resolveVars, priceVars>>

\* step 5: createDeliveriesBatch(chunk), chunk after chunk
TaskInsertBatch(r) ==
    /\ task[r] = "insert"
    /\ \E ok \in DbOutcomes :
        IF ok
        THEN /\ legRows' = legRows + NextChunk(r)
             /\ run' = [run EXCEPT ![r].inserted = @ + NextChunk(r)]
             /\ TaskGoto(r, IF run'[r].inserted = run[r].rows
                            THEN "client_totals" ELSE "insert")
        ELSE /\ UNCHANGED <<legRows, run>>
             /\ TaskGoto(r, "ps_failed")
    /\ UNCHANGED <<status, ingest, pendingValid, pendingInvalid, pc, statusAtStart, resp,
                   creditVars>>
    /\ UNCHANGED <<resolveVars, priceVars>>

\* step 6: updateClientsTotalsBatch with the count of resolved legs of every
\* client that has one
TaskClientTotals(r) ==
    /\ task[r] = "client_totals"
    /\ \E ok \in DbOutcomes :
        IF ok
        THEN /\ run' = [run EXCEPT ![r].counted = TRUE]
             /\ TaskGoto(r, "write_done")
        ELSE /\ UNCHANGED run
             /\ TaskGoto(r, "ps_failed")
    /\ UNCHANGED <<status, ingest, pendingValid, pendingInvalid, pc, statusAtStart, resp,
                   creditVars, legRows>>
    /\ UNCHANGED <<resolveVars, priceVars>>

\* step 7: updateUpload(uploadId, {status: 'distances_done', total_deliveries:
\* processedCount, total_clients: totalClients, total_amount: 0})
TaskWriteDone(r) ==
    /\ task[r] = "write_done"
    /\ \E ok \in DbOutcomes :
        IF ok
        THEN /\ UpdateUploadStatus("distances_done")
             /\ uploadTotals' = [total_deliveries |-> run[r].rows,
                                 total_clients |-> run[r].clients,
                                 total_amount |-> 0]
             /\ TaskGoto(r, "delete_pending")
        ELSE /\ UNCHANGED <<status, uploadTotals>>
             /\ TaskGoto(r, "ps_failed")
    /\ UNCHANGED <<ingest, pendingValid, pendingInvalid, pc, statusAtStart, resp,
                   creditVars>>
    /\ UNCHANGED <<runVars, resolveVars>>
    /\ UNCHANGED <<tiers, distanceKm, ctlPrice, svcPrice, pricing_config, deliveries,
                   clients, applyLog, prepVars>>

\* a catch that puts the upload back to 'ready'
TaskPsFailed_WritesReady(r) ==
    /\ task[r] = "ps_failed"
    /\ \E ok \in DbOutcomes :
        IF ok THEN UpdateUploadStatus("ready") ELSE UNCHANGED status
    /\ TaskGoto(r, "ctl_failed")
    /\ UNCHANGED <<ingest, pendingValid, pendingInvalid, pc, statusAtStart, resp,
                   creditVars>>
    /\ UNCHANGED <<runVars, resolveVars, priceVars>>

\* the catch of ProcessingService.processUpload: status 'failed' (an error of
\* that update is swallowed), then rethrow
TaskPsFailed(r) ==
    /\ task[r] = "ps_failed"
    /\ \E ok \in DbOutcomes :
        IF ok THEN UpdateUploadStatus("failed") ELSE UNCHANGED status
    /\ TaskGoto(r, "ctl_failed")
    /\ UNCHANGED <<ingest, pendingValid, pendingInvalid, pc, statusAtStart, resp,
                   creditVars>>
    /\ UNCHANGED <<runVars, resolveVars, priceVars>>

\* the catch of the async task in the controller: status 'failed' again (an
\* error swallowed), then the finally
TaskCtlFailed(r) ==
    /\ task[r] = "ctl_failed"
    /\ \E ok \in DbOutcomes :
        IF ok THEN UpdateUploadStatus("failed") ELSE UNCHANGED status
    /\ TaskFinally(r)
    /\ UNCHANGED <<ingest, pendingValid, pendingInvalid, pc, statusAtStart, resp,
                   creditVars>>
    /\ UNCHANGED <<legRows, resolveVars, priceVars>>

\* deletePendingDeliveriesByUpload, then the finally
TaskDeletePending(r) ==
    /\ task[r] = "delete_pending"
    /\ \E ok \in DbOutcomes :
        IF ok
        THEN /\ pendingValid' = 0
             /\ pendingInvalid' = 0
             /\ TaskFinally(r)
        ELSE /\ UNCHANGED <<pendingValid, pendingInvalid, run>>
             /\ TaskGoto(r, "ctl_failed")
    /\ UNCHANGED <<status, ingest, pc, statusAtStart, resp, creditVars>>
    /\ UNCHANGED <<legRows, resolveVars, priceVars>>

\* ---------------------------------------------------------------- watchdog
\* the timer callback starts: updateUpload(uploadId, {status: 'failed'}), an
\* error of which is caught and logged. The timer runs for watchdogMs = 10
\* minutes: the request that armed it (a handful of datastore calls) has
\* returned by then, and so has the intake of the file, which began before
\* any request; a background task (one resolver call and 200 ms per leg) may
\* still be running.
WatchdogFire(r) ==
    /\ watchdog[r] = "armed"
    /\ pc[r] = "returned"
    /\ ingest = "done"
    /\ \E ok \in DbOutcomes :
        IF ok
        THEN UpdateUploadStatus("failed")
        ELSE UNCHANGED status
    /\ watchdog' = [watchdog EXCEPT ![r] = "firing"]
    /\ UNCHANGED <<ingest, pendingValid, pendingInvalid, processingLocks, pc, statusAtStart,
                   task, resp, creditVars>>
    /\ UNCHANGED <<runVars, resolveVars, priceVars>>

\* a timer callback without its finally block: the lock stays
WatchdogFinally_KeepsLock(r) ==
    /\ watchdog[r] = "firing"
    /\ watchdog' = [watchdog EXCEPT ![r] = "none"]
    /\ UNCHANGED <<uploadVars, pc, statusAtStart, task, resp, creditVars>>
    /\ UNCHANGED <<runVars, resolveVars, priceVars>>

\* the finally of the timer callback: processingLocks.delete(uploadId)
WatchdogFinally(r) ==
    /\ watchdog[r] = "firing"
    /\ processingLocks' = processingLocks \ {Upload}
    /\ watchdog' = [watchdog EXCEPT ![r] = "none"]
    /\ UNCHANGED <<status, ingest, pendingValid, pendingInvalid, pc, statusAtStart,
                   task, resp, creditVars>>
    /\ UNCHANGED <<runVars, resolveVars, priceVars>>

\* ------------------------------------------------------- DistanceService
\* addresses are sequences of characters
SeqsUpTo(S, n) == UNION {[1..k -> S] : k \in 0..n}

Origins == {<< >>, <<"W">>, <<" ", "w">>}
Destinations == SeqsUpTo({" ", "A", "a"}, MaxAddrLen)

\* a lower-casing that leaves every character as it is
toLowerCase_Keep(c) == c

\* String.prototype.toLowerCase on one character
toLowerCase(c) == CASE c = "A" -> "a" [] c = "W" -> "w" [] OTHER -> c

RECURSIVE TrimStart(_)
TrimStart(s) == IF s # << >> /\ Head(s) = " " THEN TrimStart(Tail(s)) ELSE s

RECURSIVE TrimEnd(_)
TrimEnd(s) ==
    IF s # << >> /\ s[Len(s)] = " " THEN TrimEnd(SubSeq(s, 1, Len(s) - 1)) ELSE s

\* replace(/\s+/g, ' '): every run of whitespace becomes one space
RECURSIVE CollapseSpaces(_)
CollapseSpaces(s) ==
    IF s = << >> THEN << >>
    ELSE IF Head(s) = " " THEN <<" ">> \o CollapseSpaces(TrimStart(Tail(s)))
    ELSE <<Head(s)>> \o CollapseSpaces(Tail(s))

\* (s || '').trim().replace(/\s+/g, ' ').toLowerCase()
normalizeAddress(s) ==
    LET t == CollapseSpaces(TrimEnd(TrimStart(s)))
    IN [i \in 1..Len(t) |-> toLowerCase(t[i])]

\* the rows route_cache can hold, keyed by (origin_norm, destination_norm)
Keys ==
    {k \in {<<normalizeAddress(o), normalizeAddress(d)>> : o \in Origins, d \in Destinations} :
        k[1] # << >> /\ k[2] # << >>}

\* no row; a null distance_meters is 0, which fails the same test (> 0)
NoRow == [status |-> "none", distance_meters |-> 0, error_message |-> "null"]

\* what a lookup that failed or timed out leaves the call with: no row
Unavailable == [status |-> "unavailable", distance_meters |-> 0, error_message |-> "null"]

\* the key of the call under way
Key == <<normalizeAddress(originAddress), normalizeAddress(destinationAddress)>>

\* km is kept in thousandths: meters / 1000 km is `meters` thousandths
Returned(m, fromCache) ==
    [kind |-> "returned", km1000 |-> m, fromCache |-> fromCache, message |-> "null"]
Thrown(message) ==
    [kind |-> "thrown", km1000 |-> 0, fromCache |-> FALSE, message |-> message]
NoResult == [kind |-> "none", km1000 |-> 0, fromCache |-> FALSE, message |-> "null"]

\* what the Distance Matrix request does: it throws (network error,
\* timeout), or answers a status and, with OK, a distance value that may be
\* missing or not positive (0 here)
ProviderAnswers ==
    {[status |-> "THROWN", meters |-> 0], [status |-> "NOT_FOUND", meters |-> 0]}
        \cup {[status |-> "OK", meters |-> m] : m \in 0..MaxMeters}

\* `Google Distance Matrix: ${msg}`
GoogleMessage(st) ==
    CASE st = "NOT_FOUND" -> "Google Distance Matrix: NOT_FOUND"
      [] st = "DISTANCE_INVALID" -> "Google Distance Matrix: DISTANCE_INVALID"
      [] OTHER -> "Google Distance Matrix: UNKNOWN_ERROR"

InitResolveIdle ==
    /\ routeCache = [k \in Keys |-> NoRow]
    /\ apiKey = TRUE
    /\ rpc = "idle"
    /\ originAddress = << >>
    /\ destinationAddress = << >>
    /\ cached = NoRow
    /\ called = FALSE
    /\ msg = "null"
    /\ meters = 0
    /\ rres = NoResult

\* entry of getRouteDistanceKm: normalization and the empty check
getRouteDistanceKm(o, d) ==
    /\ rpc \in {"idle", "done"}
    /\ originAddress' = o
    /\ destinationAddress' = d
    /\ cached' = NoRow
    /\ called' = FALSE
    /\ msg' = "null"
    /\ meters' = 0
    /\ IF normalizeAddress(o) = << >> \/ normalizeAddress(d) = << >>
       THEN rpc' = "done" /\ rres' = Thrown("Origin ou destination vide")
       ELSE rpc' = "lookup" /\ rres' = NoResult
    /\ UNCHANGED <<routeCache, apiKey>>

\* a call of getRouteDistanceKm on its own
GetRouteDistanceKm(o, d) ==
    /\ getRouteDistanceKm(o, d)
    /\ UNCHANGED <<uploadVars, reqVars, creditVars, priceVars>>

\* a cache lookup that asks the provider whatever it found
CacheLookup_NoHit ==
    /\ rpc = "lookup"
    /\ \E ok \in DbOutcomes :
        LET row == IF ok THEN routeCache[Key] ELSE Unavailable
        IN /\ cached' = row
           /\ IF ~apiKey
              THEN rpc' = "done" /\ rres' = Thrown("GOOGLE_MAPS_API_KEY manquante")
              ELSE rpc' = "provider" /\ UNCHANGED rres
    /\ UNCHANGED <<routeCache, apiKey, originAddress, destinationAddress, called, msg, meters>>
    /\ UNCHANGED <<uploadVars, reqVars, creditVars, priceVars>>

\* a cache lookup that goes on to the provider without looking at the API key
CacheLookup_KeyNotTested ==
    /\ rpc = "lookup"
    /\ \E ok \in DbOutcomes :
        LET row == IF ok THEN routeCache[Key] ELSE Unavailable
        IN /\ cached' = row
           /\ IF row.status = "ok" /\ row.distance_meters > 0
              THEN rpc' = "done" /\ rres' = Returned(row.distance_meters, TRUE)
              ELSE rpc' = "provider" /\ UNCHANGED rres
    /\ UNCHANGED <<routeCache, apiKey, originAddress, destinationAddress, called, msg, meters>>
    /\ UNCHANGED <<uploadVars, reqVars, creditVars, priceVars>>

\* a cache lookup whose failure ends the call
CacheLookup_Strict ==
    /\ rpc = "lookup"
    /\ \E ok \in DbOutcomes :
        LET row == IF ok THEN routeCache[Key] ELSE Unavailable
        IN /\ cached' = row
           /\ IF row.status = "ok" /\ row.distance_meters > 0
              THEN rpc' = "done" /\ rres' = Returned(row.distance_meters, TRUE)
              ELSE IF ~ok
              THEN rpc' = "done" /\ rres' = Thrown("TIMEOUT_CACHE_LOOKUP_7000ms")
              ELSE IF ~apiKey
              THEN rpc' = "done" /\ rres' = Thrown("GOOGLE_MAPS_API_KEY manquante")
              ELSE rpc' = "provider" /\ UNCHANGED rres
    /\ UNCHANGED <<routeCache, apiKey, originAddress, destinationAddress, called, msg, meters>>
    /\ UNCHANGED <<uploadVars, reqVars, creditVars, priceVars>>

\* 1) the cache lookup, best effort: a lookup that fails or times out finds
\* nothing. A usable ok row is returned. The throw for an error row is
\* inside the try of the lookup, whose catch logs 'cache lookup skipped': the
\* call goes on to 2), where a missing API key is thrown
CacheLookup ==
    /\ rpc = "lookup"
    /\ \E ok \in DbOutcomes :
        LET row == IF ok THEN routeCache[Key] ELSE Unavailable
        IN /\ cached' = row
           /\ IF row.status = "ok" /\ row.distance_meters > 0
              THEN rpc' = "done" /\ rres' = Returned(row.distance_meters, TRUE)
              ELSE IF ~apiKey
              THEN rpc' = "done" /\ rres' = Thrown("GOOGLE_MAPS_API_KEY manquante")
              ELSE rpc' = "provider" /\ UNCHANGED rres
    /\ UNCHANGED <<routeCache, apiKey, originAddress, destinationAddress, called, msg, meters>>
    /\ UNCHANGED <<uploadVars, reqVars, creditVars, priceVars>>

\* 2) axios.get(distancematrix) and the reading of its answer
ProviderCall ==
    /\ rpc = "provider"
    /\ called' = TRUE
    /\ \E a \in ProviderAnswers :
        IF a.status = "THROWN"
        THEN /\ msg' = "timeout of 15000ms exceeded"
             /\ rpc' = "upsert_catch"
             /\ UNCHANGED meters
        ELSE IF a.status # "OK"
        THEN /\ msg' = GoogleMessage(a.status)
             /\ rpc' = "upsert_error"
             /\ UNCHANGED meters
        ELSE IF a.meters <= 0
        THEN /\ msg' = GoogleMessage("DISTANCE_INVALID")
             /\ rpc' = "upsert_catch"
             /\ UNCHANGED meters
        ELSE /\ meters' = a.meters
             /\ rpc' = "upsert_ok"
             /\ UNCHANGED msg
    /\ UNCHANGED <<routeCache, apiKey, originAddress, destinationAddress, cached, rres>>
    /\ UNCHANGED <<uploadVars, reqVars, creditVars, priceVars>>

\* an upsert of the error row that writes every column
UpsertErrorRow_WholeRow(ok) ==
    routeCache' = IF ok
                  THEN [routeCache EXCEPT ![Key] =
                            [status |-> "error", distance_meters |-> 0, error_message |-> msg]]
                  ELSE routeCache

\* upsert {origin_norm, destination_norm, status: 'error', error_message},
\* best effort; the columns it does not name keep their value
UpsertErrorRow(ok) ==
    routeCache' = IF ok
                  THEN [routeCache EXCEPT ![Key] =
                            [@ EXCEPT !.status = "error", !.error_message = msg]]
                  ELSE routeCache

\* a status other than OK: the error row is stored, then the exception is
\* thrown inside the try of the provider call and lands in its catch
UpsertError ==
    /\ rpc = "upsert_error"
    /\ \E ok \in DbOutcomes : UpsertErrorRow(ok)
    /\ rpc' = "upsert_catch"
    /\ UNCHANGED <<apiKey, originAddress, destinationAddress, cached, called, msg, meters, rres>>
    /\ UNCHANGED <<uploadVars, reqVars, creditVars, priceVars>>

\* the catch of the provider call: the error row is stored (again), and the
\* message is thrown
UpsertCatch ==
    /\ rpc = "upsert_catch"
    /\ \E ok \in DbOutcomes : UpsertErrorRow(ok)
    /\ rpc' = "done"
    /\ rres' = Thrown(msg)
    /\ UNCHANGED <<apiKey, originAddress, destinationAddress, cached, called, msg, meters>>
    /\ UNCHANGED <<uploadVars, reqVars, creditVars, priceVars>>

\* an upsert of the ok row whose failure ends the call
UpsertOk_Strict ==
    /\ rpc = "upsert_ok"
    /\ \E ok \in DbOutcomes :
        /\ routeCache' = IF ok
                         THEN [routeCache EXCEPT ![Key] =
                                   [status |-> "ok", distance_meters |-> meters,
                                    error_message |-> "null"]]
                         ELSE routeCache
        /\ rres' = IF ok THEN Returned(meters, FALSE)
                   ELSE Thrown("TIMEOUT_CACHE_UPSERT_OK_7000ms")
    /\ rpc' = "done"
    /\ UNCHANGED <<apiKey, originAddress, destinationAddress, cached, called, msg, meters>>
    /\ UNCHANGED <<uploadVars, reqVars, creditVars, priceVars>>

\* upsert of the ok row, best effort, and the return
UpsertOk ==
    /\ rpc = "upsert_ok"
    /\ \E ok \in DbOutcomes :
        routeCache' = IF ok
                      THEN [routeCache EXCEPT ![Key] =
                                [status |-> "ok", distance_meters |-> meters,
                                 error_message |-> "null"]]
                      ELSE routeCache
    /\ rpc' = "done"
    /\ rres' = Returned(meters, FALSE)
    /\ UNCHANGED <<apiKey, originAddress, destinationAddress, cached, called, msg, meters>>
    /\ UNCHANGED <<uploadVars, reqVars, creditVars, priceVars>>

\* ---------------------------------------------------------- calculatePrice
\* range_end === null
Null == 0 - 1

\* amounts are in cents, rates in percent, distances in tenths of a kilometre
Prices == {1000, 1503}
TvaRates == {20}

\* n / d without its fractional part
Round_Down(n, d) == n \div d

\* Math.round(n / d) for n >= 0
Round(n, d) == (2 * n + d) \div (2 * d)

Tier == [range_start : 0..MaxKm, range_end : (1..MaxKm) \cup {Null},
         price : Prices, tva_rate : TvaRates]

TierOk(t) == t.range_end = Null \/ t.range_start < t.range_end

\* two tiers share no distance, range ends being exclusive
Disjoint(a, b) ==
    \/ a.range_end # Null /\ a.range_end <= b.range_start
    \/ b.range_end # Null /\ b.range_end <= a.range_start

\* the grids a user can configure: tiers in any order that do not overlap
TierLists ==
    {ts \in SeqsUpTo({t \in Tier : TierOk(t)}, MaxTiers) :
        \A i, j \in DOMAIN ts : i < j => Disjoint(ts[i], ts[j])}

\* [...tiers].sort((a, b) => a.range_start - b.range_start), a stable sort
RECURSIVE InsertByStart(_, _)
InsertByStart(t, s) ==
    IF s = << >> THEN <<t>>
    ELSE IF t.range_start <= Head(s).range_start THEN <<t>> \o s
    ELSE <<Head(s)>> \o InsertByStart(t, Tail(s))

RECURSIVE SortByStart(_)
SortByStart(s) ==
    IF s = << >> THEN << >> ELSE InsertByStart(Head(s), SortByStart(Tail(s)))

\* the smallest element of a non-empty set of indices
First(I) == CHOOSE i \in I : \A j \in I : i <= j

NotComputed == [kind |-> "none"]

\* Intl.NumberFormat('fr-FR', {maximumFractionDigits: 2}): the integer part
\* and, when it is not zero, the decimal digit after the comma
formatKmFR(n) ==
    IF n % 10 = 0 THEN <<n \div 10>> ELSE <<n \div 10, ",", n % 10>>

\* formatRangeLabel: "start+ km" for an open tier, "start-end km" otherwise
formatRangeLabel(start, end) ==
    IF end = Null THEN formatKmFR(start) \o <<"+ km">>
    ELSE formatKmFR(start) \o <<"-">> \o formatKmFR(end) \o <<" km">>

\* the grid [0,5) = 8.00, [5,10) = 10.00, [10,inf) = 12.00, at 20 %
ScenarioTiers ==
    <<[range_start |-> 0, range_end |-> 50, price |-> 800, tva_rate |-> 20],
      [range_start |-> 50, range_end |-> 100, price |-> 1000, tva_rate |-> 20],
      [range_start |-> 100, range_end |-> Null, price |-> 1200, tva_rate |-> 20]>>

\* a leg of 7.5 km
ScenarioDistances == {75}

\* UploadController.calculatePrice: the first tier, by start, with
\* start <= distance and (no end or distance < end); null when there is none
UploadController_calculatePrice(d, ts) ==
    LET sortedTiers == SortByStart(ts)
        inRange == {i \in DOMAIN sortedTiers :
                        /\ d >= sortedTiers[i].range_start
                        /\ (sortedTiers[i].range_end = Null \/ d < sortedTiers[i].range_end)}
    IN IF inRange = {} THEN [kind |-> "null"]
       ELSE LET tier == sortedTiers[First(inRange)]
            IN [kind |-> "ok",
                ht |-> tier.price,
                ttc |-> Round(tier.price * 100 + tier.price * tier.tva_rate, 100),
                tva |-> Round(tier.price * tier.tva_rate, 100)]

\* PricingService.calculatePrice: the first tier, by start, with
\* start <= distance and (no end or distance <= end); the first tier of the
\* grid when there is none; an error for an empty grid
PricingService_calculatePrice(d, ts) ==
    LET normalized == SortByStart(ts)
        matching == {i \in DOMAIN normalized :
                        IF normalized[i].range_end = Null
                        THEN d >= normalized[i].range_start
                        ELSE d >= normalized[i].range_start /\ d <= normalized[i].range_end}
    IN IF d < 0 THEN [kind |-> "thrown", message |-> "Distance invalide"]
       ELSE IF normalized = << >>
       THEN [kind |-> "thrown", message |-> "Aucune grille tarifaire"]
       ELSE LET applied == IF matching = {} THEN normalized[1]
                           ELSE normalized[First(matching)]
            IN [kind |-> "ok",
                price_ht |-> applied.price,
                price_ttc |-> Round(applied.price * 100 + applied.price * applied.tva_rate, 100),
                tva_amount |-> Round(applied.price * applied.tva_rate, 100),
                tva_rate |-> applied.tva_rate,
                applied_range |-> formatRangeLabel(applied.range_start, applied.range_end)]

\* ------------------------------------------------- applyPricingToUpload
ClientIds == {"c1", "c2"}

\* applied_range null
NoLabel == << >>

\* what the resolver gave for a leg: 3 km, 7.5 km, nothing usable, an error
LegResults ==
    {Thrown("ZERO_RESULTS")} \cup {Returned(m, FALSE) : m \in {0, 3000, 7500}}

\* the legs of an upload as the processing run receives them, with what the
\* resolver gives for them when it is called
LegInputs ==
    [client_id : ClientIds, origin_address : {<<" ">>, <<"W">>},
     destination_address : {<<" ">>, <<"A">>}, result : LegResults]

\* a preparation for which a resolver error is an address that was not found
PrepareRow_ErrorsNotFound(l, unit) ==
    LET originAddress_ == TrimEnd(TrimStart(l.origin_address))
        destinationAddress_ == TrimEnd(TrimStart(l.destination_address))
        resolved == originAddress_ # << >> /\ destinationAddress_ # << >>
        found == /\ resolved
                 /\ l.result.kind = "returned"
                 /\ l.result.km1000 > 0
    IN [client_id |-> l.client_id,
        status |-> IF found THEN "DISTANCE_OK" ELSE "ADDRESS_NOT_FOUND",
        distance_km |-> IF found THEN l.result.km1000 \div unit ELSE Null,
        price_ht |-> 0,
        price_ttc |-> 0,
        tva_amount |-> Null,
        tva_rate |-> Null,
        applied_range |-> NoLabel]

\* the row processUpload prepares for a leg: no distance for an empty
\* address, a resolver error or a distance that is not positive; prices 0.
\* distance_km is kept in units of `unit` thousandths of a kilometre
PrepareRow(l, unit) ==
    LET originAddress_ == TrimEnd(TrimStart(l.origin_address))
        destinationAddress_ == TrimEnd(TrimStart(l.destination_address))
        resolved == originAddress_ # << >> /\ destinationAddress_ # << >>
        found == /\ resolved
                 /\ l.result.kind = "returned"
                 /\ l.result.km1000 > 0
    IN [client_id |-> l.client_id,
        status |-> IF found THEN "DISTANCE_OK"
                   ELSE IF resolved /\ l.result.kind = "thrown"
                   THEN "CALCULATION_ERROR"
                   ELSE "ADDRESS_NOT_FOUND",
        distance_km |-> IF found THEN l.result.km1000 \div unit ELSE Null,
        price_ht |-> 0,
        price_ttc |-> 0,
        tva_amount |-> Null,
        tva_rate |-> Null,
        applied_range |-> NoLabel]

\* the row as the pricing service reads it, its distance in tenths of a km
PrepareLeg(l) == PrepareRow(l, 100)

PreparedLegs == {PrepareLeg(l) : l \in LegInputs}

\* the indices of the legs of client c
LegsOf(rows, c) == {i \in DOMAIN rows : rows[i].client_id = c}

\* the sum of f over the indices I
RECURSIVE SumOver(_, _)
SumOver(I, f) ==
    IF I = {} THEN 0
    ELSE LET i == CHOOSE j \in I : TRUE IN f[i] + SumOver(I \ {i}, f)

\* the rows of a grid applyPricingToUpload keeps
Exploitable(p) == p.range_start >= 0 /\ p.price >= 0

\* every row of the grid is kept
normalizedPricing_KeepAll(pricing) == pricing

normalizedPricing(pricing) == SelectSeq(pricing, Exploitable)

\* another upload, with its own grid in pricing_config
OtherUpload == "u2"

\* the rows inserted for upload u: {upload_id, range_start, range_end, price,
\* tva_rate}
Stamp(u, p) ==
    [i \in DOMAIN p |->
        [upload_id |-> u, range_start |-> p[i].range_start, range_end |-> p[i].range_end,
         price |-> p[i].price, tva_rate |-> p[i].tva_rate]]

\* from('pricing_config').select(...).eq('upload_id', u).order('range_start')
configOf(table, u) ==
    LET rows == SelectSeq(table, LAMBDA r : r.upload_id = u)
    IN SortByStart([i \in DOMAIN rows |->
                       [range_start |-> rows[i].range_start, range_end |-> rows[i].range_end,
                        price |-> rows[i].price, tva_rate |-> rows[i].tva_rate]])

getPricingConfigForUpload(u) == configOf(pricing_config, u)

\* a delete that removes nothing
deletePricingConfig_KeepsRows(table, u) == table

\* from('pricing_config').delete().eq('upload_id', u)
deletePricingConfig(table, u) == SelectSeq(table, LAMBDA r : r.upload_id # u)

\* the answers of getDeliveriesWritableColumns; a probe that fails counts
\* as a column that does not exist
Cols == [hasAppliedRange : BOOLEAN, hasTvaAmount : BOOLEAN, hasTvaRate : BOOLEAN]

\* the body of the pricing loop followed by the upsert of the row: a leg
\* without distance gets prices 0 and no label, the others what
\* calculatePrice says; columns that were not detected are left as they are
PriceLeg_MatchAll(d, cfg, cols) ==
    LET calc == PricingService_calculatePrice(
                    IF d.distance_km = Null THEN 0 ELSE d.distance_km, cfg)
    IN [d EXCEPT !.price_ht = calc.price_ht,
                 !.price_ttc = calc.price_ttc,
                 !.tva_amount = IF cols.hasTvaAmount THEN calc.tva_amount ELSE @,
                 !.tva_rate = IF cols.hasTvaRate THEN calc.tva_rate ELSE @,
                 !.applied_range = IF cols.hasAppliedRange THEN calc.applied_range ELSE @]

PriceLeg(d, cfg, cols) ==
    IF d.distance_km = Null
    THEN [d EXCEPT !.price_ht = 0,
                   !.price_ttc = 0,
                   !.tva_amount = IF cols.hasTvaAmount THEN 0 ELSE @,
                   !.tva_rate = IF cols.hasTvaRate THEN 0 ELSE @,
                   !.applied_range = IF cols.hasAppliedRange THEN NoLabel ELSE @]
    ELSE LET calc == PricingService_calculatePrice(d.distance_km, cfg)
         IN [d EXCEPT !.price_ht = calc.price_ht,
                      !.price_ttc = calc.price_ttc,
                      !.tva_amount = IF cols.hasTvaAmount THEN calc.tva_amount ELSE @,
                      !.tva_rate = IF cols.hasTvaRate THEN calc.tva_rate ELSE @,
                      !.applied_range = IF cols.hasAppliedRange THEN calc.applied_range ELSE @]

\* nonPriced of the pricing loop: one more for each leg without distance
RECURSIVE CountNonPriced(_)
CountNonPriced(list) ==
    IF list = << >> THEN 0
    ELSE (IF Head(list).distance_km = Null THEN 1 ELSE 0) + CountNonPriced(Tail(list))

\* updateClientsTotals, adding to the totals a client already has
updateClientsTotals_Incremental(rows, cl) ==
    [c \in DOMAIN cl |->
        IF LegsOf(rows, c) = {} THEN cl[c]
        ELSE [total_deliveries |-> cl[c].total_deliveries + Cardinality(LegsOf(rows, c)),
              total_amount_ht |-> cl[c].total_amount_ht +
                  Round(SumOver(LegsOf(rows, c), [i \in DOMAIN rows |-> rows[i].price_ht]), 1),
              total_amount_ttc |-> cl[c].total_amount_ttc +
                  Round(SumOver(LegsOf(rows, c), [i \in DOMAIN rows |-> rows[i].price_ttc]), 1)]]

\* updateClientsTotals: every client that has legs gets their number and the
\* sums of their prices, computed from the table
updateClientsTotals(rows, cl) ==
    [c \in DOMAIN cl |->
        IF LegsOf(rows, c) = {} THEN cl[c]
        ELSE [total_deliveries |-> Cardinality(LegsOf(rows, c)),
              total_amount_ht |->
                  Round(SumOver(LegsOf(rows, c), [i \in DOMAIN rows |-> rows[i].price_ht]), 1),
              total_amount_ttc |->
                  Round(SumOver(LegsOf(rows, c), [i \in DOMAIN rows |-> rows[i].price_ttc]), 1)]]

\* updateUploadTotals summing the prices without tax
updateUploadTotals_ExclTax(rows, cl) ==
    [total_deliveries |-> Len(rows),
     total_clients |-> Cardinality(DOMAIN cl),
     total_amount |->
         Round(SumOver(DOMAIN rows, [i \in DOMAIN rows |-> rows[i].price_ht]), 1)]

\* updateUploadTotals: the numbers of legs and clients and the sum of the
\* prices with tax, computed from the tables
updateUploadTotals(rows, cl) ==
    [total_deliveries |-> Len(rows),
     total_clients |-> Cardinality(DOMAIN cl),
     total_amount |->
         Round(SumOver(DOMAIN rows, [i \in DOMAIN rows |-> rows[i].price_ttc]), 1)]

\* the datastore calls of applyPricingToUpload, in order; one of them may fail
ApplySteps ==
    <<"delete_cfg", "insert_cfg", "load_deliveries", "upload_totals_empty", "reload_cfg",
      "upsert", "clients_totals", "upload_totals", "summary">>
Faults == {ApplySteps[i] : i \in DOMAIN ApplySteps} \cup {"none"}

\* the call got past step s although the datastore fails at step fault
Past(fault, s) ==
    \/ fault = "none"
    \/ \E i, j \in DOMAIN ApplySteps :
           ApplySteps[i] = s /\ ApplySteps[j] = fault /\ i < j

NotApplied == [kind |-> "none"]

\* what the last call returned or threw
applyRes == IF applyLog = << >> THEN NotApplied ELSE applyLog[Len(applyLog)]

\* no prepare_all loop under way
InitPrepIdle ==
    /\ legs = << >>
    /\ ppc = "idle"
    /\ deliveriesRowsToInsert = << >>
    /\ prepLog = << >>

InitBillIdle ==
    /\ pricing_config = << >>
    /\ deliveries = << >>
    /\ clients = << >>
    /\ uploadTotals = [total_deliveries |-> 0, total_clients |-> 0, total_amount |-> 0]
    /\ applyLog = << >>
    /\ InitPrepIdle

\* applyPricingToUpload(uploadId, pricing)
applyPricingToUpload(pricing, cols, fault) ==
    LET kept == normalizedPricing(pricing)
        deleted == deletePricingConfig(pricing_config, Upload)
        inserted == deleted \o Stamp(Upload, kept)
        cfg == configOf(inserted, Upload)
        list == deliveries
        updates == [i \in DOMAIN list |-> PriceLeg(list[i], cfg, cols)]
        empty == list = << >>
        \* the steps this call goes through
        runs(s) == IF empty THEN s \in {"delete_cfg", "insert_cfg", "load_deliveries",
                                        "upload_totals_empty"}
                   ELSE s # "upload_totals_empty"
        thrown == kept = << >> \/ fault # "none"
        past(s) == kept # << >> /\ runs(s) /\ Past(fault, s)
        rows == IF past("upsert") THEN updates ELSE deliveries
        cl == IF past("clients_totals") THEN updateClientsTotals(rows, clients) ELSE clients
    IN /\ Len(applyLog) < MaxApplies
       /\ fault = "none" \/ (kept # << >> /\ runs(fault))
       /\ pricing_config' = IF past("insert_cfg") THEN inserted
                             ELSE IF past("delete_cfg") THEN deleted
                             ELSE pricing_config
       /\ deliveries' = rows
       /\ clients' = cl
       /\ uploadTotals' = IF past("upload_totals") \/ past("upload_totals_empty")
                           THEN updateUploadTotals(rows, cl)
                           ELSE uploadTotals
       /\ applyLog' = Append(applyLog,
                       IF thrown
                       THEN [kind |-> "thrown", pricing |-> pricing,
                             message |-> IF kept = << >> THEN "Grille invalide" ELSE fault]
                       ELSE IF empty
                       THEN [kind |-> "ok", pricing |-> pricing, total_deliveries |-> 0,
                             updated_deliveries |-> 0, non_priced |-> Null,
                             deliveries_columns |-> Null]
                       ELSE [kind |-> "ok", pricing |-> pricing,
                             total_deliveries |-> Len(list),
                             updated_deliveries |-> Len(updates),
                             non_priced |-> CountNonPriced(list),
                             deliveries_columns |-> cols])
       /\ UNCHANGED <<tiers, distanceKm, ctlPrice, svcPrice, prepVars>>
       /\ UNCHANGED <<uploadVars, reqVars, creditVars, resolveVars>>

InitPriceIdle ==
    /\ tiers = << >>
    /\ distanceKm = 0
    /\ ctlPrice = NotComputed
    /\ svcPrice = NotComputed
    /\ InitBillIdle

\* ============================================================ SpecResolve
\* the upload, the requests and the account at rest
IdleUpload ==
    /\ InitUpload
    /\ InitRequests
    /\ InitCalls
    /\ credits = 0
    /\ granted = 0
    /\ spent = 0

\* what route_cache holds when the process starts: nothing, or a row an
\* earlier process stored for one pair of addresses
StoredCaches ==
    {[k \in Keys |-> NoRow]}
        \cup {[k \in Keys |->
                 IF k = k0
                 THEN [status |-> "ok", distance_meters |-> m, error_message |-> "null"]
                 ELSE NoRow] : k0 \in Keys, m \in 1..MaxMeters}

InitResolve ==
    /\ IdleUpload
    /\ InitPriceIdle
    /\ routeCache \in StoredCaches
    /\ apiKey \in BOOLEAN
    /\ rpc = "idle"
    /\ originAddress = << >>
    /\ destinationAddress = << >>
    /\ cached = NoRow
    /\ called = FALSE
    /\ msg = "null"
    /\ meters = 0
    /\ rres = NoResult

NextResolve ==
    \/ \E o \in Origins, d \in Destinations : GetRouteDistanceKm(o, d)
    \/ CacheLookup
    \/ ProviderCall
    \/ UpsertError
    \/ UpsertCatch
    \/ UpsertOk

SpecResolve == InitResolve /\ [][NextResolve]_vars

\* ============================================================== SpecPrice
\* one leg with its distance and one pricing grid, priced by both functions
InitPrice ==
    /\ IdleUpload
    /\ InitResolveIdle
    /\ tiers \in TierLists \cup {ScenarioTiers}
    /\ distanceKm \in (0..MaxKm) \cup ScenarioDistances
    /\ ctlPrice = NotComputed
    /\ svcPrice = NotComputed
    /\ InitBillIdle

\* applyPricing of the upload controller: a leg without distance (0 is
\* falsy) is skipped, the others are priced
ApplyPricing ==
    /\ ctlPrice = NotComputed
    /\ ctlPrice' = IF distanceKm = 0 THEN [kind |-> "skipped"]
                   ELSE UploadController_calculatePrice(distanceKm, tiers)
    /\ UNCHANGED <<tiers, distanceKm, svcPrice, billVars>>
    /\ UNCHANGED <<uploadVars, reqVars, creditVars, resolveVars>>

\* applyPricingToUpload of the pricing service
ApplyPricingToUpload ==
    /\ svcPrice = NotComputed
    /\ svcPrice' = PricingService_calculatePrice(distanceKm, tiers)
    /\ UNCHANGED <<tiers, distanceKm, ctlPrice, billVars>>
    /\ UNCHANGED <<uploadVars, reqVars, creditVars, resolveVars>>

NextPrice == ApplyPricing \/ ApplyPricingToUpload

SpecPrice == InitPrice /\ [][NextPrice]_vars

\* ============================================================== SpecApply
\* the legs a processing run left for an upload, priced again and again
\* a row with a negative price, which applyPricingToUpload drops
BadTier == [range_start |-> 0, range_end |-> Null, price |-> 0 - 100, tva_rate |-> 20]
FlatTier == [range_start |-> 0, range_end |-> Null, price |-> 1503, tva_rate |-> 20]

ApplyGrids ==
    {<< >>, <<BadTier>>, ScenarioTiers, <<FlatTier>>, <<BadTier, FlatTier>>}

\* the columns a call may detect: the two tax columns exist together
ApplyCols == {c \in Cols : c.hasTvaAmount = c.hasTvaRate}

InitApply ==
    /\ IdleUpload
    /\ InitResolveIdle
    /\ tiers = << >>
    /\ distanceKm = 0
    /\ ctlPrice = NotComputed
    /\ svcPrice = NotComputed
    /\ pricing_config = Stamp(OtherUpload, <<FlatTier>>)
    /\ deliveries \in UNION {[1..n -> PreparedLegs] : n \in 0..MaxLegs}
    /\ clients = [c \in {deliveries[i].client_id : i \in DOMAIN deliveries} |->
                    [total_deliveries |->
                         Cardinality({i \in LegsOf(deliveries, c) :
                                         deliveries[i].status = "DISTANCE_OK"}),
                     total_amount_ht |-> 0,
                     total_amount_ttc |-> 0]]
    /\ uploadTotals = [total_deliveries |-> Len(deliveries),
                       total_clients |-> Cardinality(DOMAIN clients),
                       total_amount |-> 0]
    /\ applyLog = << >>
    /\ InitPrepIdle

NextApply ==
    \E pricing \in ApplyGrids, cols \in ApplyCols, fault \in Faults :
        applyPricingToUpload(pricing, cols, fault)

SpecApply == InitApply /\ [][NextApply]_vars

\* =============================================================== SpecLegs
\* step 4 of ProcessingService.processUpload: the loop that resolves the
\* distance of each leg through getRouteDistanceKm and prepares its row
LegClient == "c1"

\* the deliveries of the upload: origin and destination as the file gave them
PrepLegs ==
    [client_id : {LegClient}, origin_address : {<<" ">>, <<"W">>},
     destination_address : {<< >>, <<"A">>, <<"a">>}]

\* the leg the loop is at
legIndex == Len(deliveriesRowsToInsert) + 1
originOf(l) == TrimEnd(TrimStart(l.origin_address))
destinationOf(l) == TrimEnd(TrimStart(l.destination_address))

\* the leg with what the resolver gave for it
WithResult(l, res) ==
    [client_id |-> l.client_id, origin_address |-> l.origin_address,
     destination_address |-> l.destination_address, result |-> res]

\* one entry of prepLog
LogEntry(res, resolverCalled, providerCalled, delayed) ==
    [outcome |-> res.kind, resolver |-> resolverCalled, provider |-> providerCalled,
     fromCache |-> res.fromCache, delayed |-> delayed]

\* deliveriesRowsToInsert.push of the row of the leg, distances in thousandths
PushRow(res, entry) ==
    /\ deliveriesRowsToInsert' =
           Append(deliveriesRowsToInsert, PrepareRow(WithResult(legs[legIndex], res), 1))
    /\ prepLog' = Append(prepLog, entry)

\* a leg without origin or destination: no resolver call
PrepareSkip ==
    /\ ppc = "next"
    /\ legIndex <= Len(legs)
    /\ originOf(legs[legIndex]) = << >> \/ destinationOf(legs[legIndex]) = << >>
    /\ PushRow(NoResult, LogEntry(NoResult, FALSE, FALSE, FALSE))
    /\ UNCHANGED <<legs, ppc>>
    /\ UNCHANGED <<pricing_config, deliveries, clients, uploadTotals, applyLog>>
    /\ UNCHANGED <<tiers, distanceKm, ctlPrice, svcPrice>>
    /\ UNCHANGED <<uploadVars, reqVars, creditVars, resolveVars>>

\* await getRouteDistanceKm(originAddress, destinationAddress)
PrepareCall ==
    /\ ppc = "next"
    /\ legIndex <= Len(legs)
    /\ originOf(legs[legIndex]) # << >> /\ destinationOf(legs[legIndex]) # << >>
    /\ getRouteDistanceKm(originOf(legs[legIndex]), destinationOf(legs[legIndex]))
    /\ ppc' = "await"
    /\ UNCHANGED <<legs, deliveriesRowsToInsert, prepLog, sideVars>>
    /\ UNCHANGED <<pricing_config, deliveries, clients, uploadTotals, applyLog>>
    /\ UNCHANGED <<tiers, distanceKm, ctlPrice, svcPrice>>
    /\ UNCHANGED <<uploadVars, reqVars, creditVars>>

\* the call is over. An exception lands in the catch of the loop, which
\* prepares the row at once; a result is classified and, when it did not
\* come from the cache, the loop waits delay(200) before it prepares the row
PrepareResult ==
    /\ ppc = "await"
    /\ rpc = "done"
    /\ IF rres.kind = "returned" /\ ~rres.fromCache
       THEN /\ ppc' = "delay"
            /\ UNCHANGED <<deliveriesRowsToInsert, prepLog>>
       ELSE /\ ppc' = "next"
            /\ PushRow(rres, LogEntry(rres, TRUE, called, FALSE))
    /\ UNCHANGED legs
    /\ UNCHANGED <<pricing_config, deliveries, clients, uploadTotals, applyLog>>
    /\ UNCHANGED <<tiers, distanceKm, ctlPrice, svcPrice>>
    /\ UNCHANGED <<uploadVars, reqVars, creditVars, resolveVars>>

\* delay(200) is over
PrepareDelay ==
    /\ ppc = "delay"
    /\ ppc' = "next"
    /\ PushRow(rres, LogEntry(rres, TRUE, called, TRUE))
    /\ UNCHANGED legs
    /\ UNCHANGED <<pricing_config, deliveries, clients, uploadTotals, applyLog>>
    /\ UNCHANGED <<tiers, distanceKm, ctlPrice, svcPrice>>
    /\ UNCHANGED <<uploadVars, reqVars, creditVars, resolveVars>>

\* the loop is over: every leg has its row
PrepareEnd ==
    /\ ppc = "next"
    /\ legIndex > Len(legs)
    /\ ppc' = "prepared"
    /\ UNCHANGED <<legs, deliveriesRowsToInsert, prepLog>>
    /\ UNCHANGED <<pricing_config, deliveries, clients, uploadTotals, applyLog>>
    /\ UNCHANGED <<tiers, distanceKm, ctlPrice, svcPrice>>
    /\ UNCHANGED <<uploadVars, reqVars, creditVars, resolveVars>>

\* successfulByClientId: the number of DISTANCE_OK legs of every client that
\* has one
successfulByClientId(rows) ==
    [c \in {rows[i].client_id : i \in {j \in DOMAIN rows : rows[j].status = "DISTANCE_OK"}} |->
        Cardinality({i \in LegsOf(rows, c) : rows[i].status = "DISTANCE_OK"})]

\* updateClientsTotalsBatch(updates): the totals of every client named
updateClientsTotalsBatch(cl, updates) ==
    [c \in DOMAIN cl |->
        IF c \in DOMAIN updates
        THEN [total_deliveries |-> updates[c], total_amount_ht |-> 0, total_amount_ttc |-> 0]
        ELSE cl[c]]

\* steps 4b and 5: the legs of an earlier run are deleted and the prepared
\* rows inserted (one chunk here); an error ends the run
RunInsertLegs ==
    /\ ppc = "prepared"
    /\ Len(deliveriesRowsToInsert) <= ChunkRows
    /\ \E ok \in DbOutcomes :
        IF ok
        THEN deliveries' = deliveriesRowsToInsert /\ ppc' = "inserted"
        ELSE UNCHANGED deliveries /\ ppc' = "failed"
    /\ UNCHANGED <<legs, deliveriesRowsToInsert, prepLog>>
    /\ UNCHANGED <<pricing_config, clients, uploadTotals, applyLog>>
    /\ UNCHANGED <<tiers, distanceKm, ctlPrice, svcPrice>>
    /\ UNCHANGED <<uploadVars, reqVars, creditVars, resolveVars>>

\* step 6: total_deliveries: okCount for the clients of successfulByClientId,
\* when there is one
RunClientTotals ==
    /\ ppc = "inserted"
    /\ \E ok \in DbOutcomes :
        IF ok
        THEN /\ clients' = updateClientsTotalsBatch(clients,
                               successfulByClientId(deliveriesRowsToInsert))
             /\ ppc' = "counted"
        ELSE UNCHANGED clients /\ ppc' = "failed"
    /\ UNCHANGED <<legs, deliveriesRowsToInsert, prepLog>>
    /\ UNCHANGED <<pricing_config, deliveries, uploadTotals, applyLog>>
    /\ UNCHANGED <<tiers, distanceKm, ctlPrice, svcPrice>>
    /\ UNCHANGED <<uploadVars, reqVars, creditVars, resolveVars>>

\* step 7: the upload is written distances_done with its totals
RunUpdateUploadDone ==
    /\ ppc = "counted"
    /\ \E ok \in DbOutcomes :
        IF ok
        THEN /\ uploadTotals' = [total_deliveries |-> Len(deliveriesRowsToInsert),
                                 total_clients |-> Cardinality(DOMAIN clients),
                                 total_amount |-> 0]
             /\ ppc' = "distances_done"
        ELSE UNCHANGED uploadTotals /\ ppc' = "failed"
    /\ UNCHANGED <<legs, deliveriesRowsToInsert, prepLog>>
    /\ UNCHANGED <<pricing_config, deliveries, clients, applyLog>>
    /\ UNCHANGED <<tiers, distanceKm, ctlPrice, svcPrice>>
    /\ UNCHANGED <<uploadVars, reqVars, creditVars, resolveVars>>

InitLegs ==
    /\ IdleUpload
    /\ tiers = << >>
    /\ distanceKm = 0
    /\ ctlPrice = NotComputed
    /\ svcPrice = NotComputed
    /\ pricing_config = << >>
    /\ deliveries = << >>
    /\ clients = [c \in {LegClient} |->
                    [total_deliveries |-> 0, total_amount_ht |-> 0, total_amount_ttc |-> 0]]
    /\ uploadTotals = [total_deliveries |-> 0, total_clients |-> 0, total_amount |-> 0]
    /\ applyLog = << >>
    /\ legs \in UNION {[1..n -> PrepLegs] : n \in 1..MaxPrepLegs}
    /\ ppc = "next"
    /\ deliveriesRowsToInsert = << >>
    /\ prepLog = << >>
    /\ routeCache \in StoredCaches
    /\ apiKey \in BOOLEAN
    /\ rpc = "idle"
    /\ originAddress = << >>
    /\ destinationAddress = << >>
    /\ cached = NoRow
    /\ called = FALSE
    /\ msg = "null"
    /\ meters = 0
    /\ rres = NoResult

NextLegs ==
    \/ PrepareSkip
    \/ PrepareCall
    \/ PrepareResult
    \/ PrepareDelay
    \/ PrepareEnd
    \/ RunInsertLegs
    \/ RunClientTotals
    \/ RunUpdateUploadDone
    \/ CacheLookup
    \/ ProviderCall
    \/ UpsertError
    \/ UpsertCatch
    \/ UpsertOk

SpecLegs == InitLegs /\ [][NextLegs]_vars

\* =============================================================== SpecRound
\* the amounts calculatePrice returns for the tier it applies, over unit
\* prices that have a third decimal
\* price is in 1/unit of a cent, the amounts returned are in cents:
\* round2(priceHT), round2(priceHT * tvaRate / 100) and
\* round2(priceHT + priceHT * tvaRate / 100), each from the exact values
round2Amounts(price, tva_rate, unit) ==
    [kind |-> "ok",
     price_ht |-> Round(price, unit),
     tva_amount |-> Round(price * tva_rate, 100 * unit),
     price_ttc |-> Round(price * 100 + price * tva_rate, 100 * unit)]

\* tva_rate in percent
QuoteRates == {0, 10, 20}

InitRound ==
    /\ InitRows
    /\ dbFaults = TRUE
    /\ InitRequests
    /\ InitCalls
    /\ credits = 0
    /\ granted = 0
    /\ spent = 0
    /\ InitResolveIdle
    /\ InitPriceIdle
    /\ quote \in [price : 0..MaxMills, tva_rate : QuoteRates, result : {NoQuote.result}]

\* calculatePrice on a grid whose tier {price, tva_rate} applies
QuoteTier ==
    /\ quote.result.kind = "none"
    /\ quote' = [quote EXCEPT !.result = round2Amounts(quote.price, quote.tva_rate, 10)]
    /\ UNCHANGED dbFaults
    /\ UNCHANGED <<routeCache, apiKey, rpc, originAddress, destinationAddress, cached,
                   called, msg, meters, rres>>
    /\ UNCHANGED <<tiers, distanceKm, ctlPrice, svcPrice, billVars>>
    /\ UNCHANGED <<uploadVars, reqVars, creditVars>>

NextRound == QuoteTier

SpecRound == InitRound /\ [][NextRound]_vars

\* ------------------------------------------------------------ specification
InitCredits ==
    /\ credits \in 0..MaxCredits
    /\ granted = credits
    /\ spent = 0

Init ==
    /\ InitUpload
    /\ InitRequests
    /\ InitCalls
    /\ InitCredits
    /\ InitResolveIdle
    /\ InitPriceIdle

Next ==
    \/ UploadInsertPending
    \/ UploadSetStatus
    \/ FixAddress
    \/ \E r \in Requests :
        \/ ProcessUploadLock(r)
        \/ ReadUpload(r)
        \/ SetProcessing(r)
        \/ ReadInvalid(r)
        \/ SetPendingValidation(r)
        \/ ReadPending(r)
        \/ RequestCredit(r)
        \/ LaunchTask(r)
        \/ CreditFailReset(r)
        \/ TaskFetch(r)
        \/ TaskCleanup(r)
        \/ TaskInsertBatch(r)
        \/ TaskClientTotals(r)
        \/ TaskWriteDone(r)
        \/ TaskPsFailed(r)
        \/ TaskCtlFailed(r)
        \/ TaskDeletePending(r)
        \/ WatchdogFire(r)
        \/ WatchdogFinally(r)
        \/ Forget(r)

Spec == Init /\ [][Next]_vars

\* ================================================================ SpecFair
\* the same upload on a datastore that accepts every call, with what the
\* event loop guarantees: the intake of the file, every request received and
\* every background task take their next step, and a timer still armed when
\* its delay has elapsed fires and runs its callback to the end. Nothing
\* obliges a client to send a request or to correct an address.
InitFair ==
    /\ InitRows
    /\ dbFaults = FALSE
    /\ quote = NoQuote
    /\ InitRequests
    /\ InitCalls
    /\ InitCredits
    /\ InitResolveIdle
    /\ InitPriceIdle

IntakeStep == UploadInsertPending \/ UploadSetStatus

\* the next await of the request of slot r or of the task it launched
RequestStep(r) ==
    \/ ReadUpload(r)
    \/ SetProcessing(r)
    \/ ReadInvalid(r)
    \/ SetPendingValidation(r)
    \/ ReadPending(r)
    \/ RequestCredit(r)
    \/ LaunchTask(r)
    \/ CreditFailReset(r)

TaskStep(r) ==
    \/ TaskFetch(r)
    \/ TaskCleanup(r)
    \/ TaskInsertBatch(r)
    \/ TaskClientTotals(r)
    \/ TaskWriteDone(r)
    \/ TaskPsFailed(r)
    \/ TaskCtlFailed(r)
    \/ TaskDeletePending(r)

WatchdogStep(r) == WatchdogFire(r) \/ WatchdogFinally(r)

SpecFair ==
    /\ InitFair
    /\ [][Next]_vars
    /\ WF_vars(IntakeStep)
    /\ \A r \in Requests :
          WF_vars(RequestStep(r)) /\ WF_vars(TaskStep(r)) /\ WF_vars(WatchdogStep(r))

\* ============================================================ SpecCredit
\* consumeCreditsOrFail on its own: every caller makes calls, one after the
\* other, with amounts of its choice; the calls of different callers
\* interleave at their awaits, and the outcome and the amount of a finished
\* call stay visible until the caller's next call.
Amounts == (0 - 1)..(MaxCredits + 1)

\* await this.consumeCreditsOrFail(userId, n)
CreditCall(r) ==
    /\ pc[r] \in {"idle", "credit_done"}
    /\ \E n \in Amounts : ConsumeBegin(r, n)
    /\ UNCHANGED <<uploadVars, statusAtStart, watchdog, task, resp>>
    /\ UNCHANGED <<runVars, resolveVars, priceVars>>

\* the next await of the call of r
CreditStep(r) ==
    /\ ConsumeStep(r)
    /\ UNCHANGED <<uploadVars, statusAtStart, watchdog, task, resp>>
    /\ UNCHANGED <<runVars, resolveVars, priceVars>>

NextCredit == \E r \in Requests : CreditCall(r) \/ CreditStep(r)

SpecCredit == Init /\ [][NextCredit]_vars

\* a datastore call returns or fails, and the call waiting for it goes on
SpecCreditFair == SpecCredit /\ \A r \in Requests : WF_vars(CreditStep(r))

\* ------------------------------------------------------------------ claims
\* a request that has acquired the lock and not returned yet
InFlight(r) == pc[r] \notin {"idle", "returned"}

\* a background task of the request is running
TaskActive(r) == task[r] # "none"

\* C1: in every reachable state at most one background task is active for
\* the upload, also after a watchdog has fired while the earlier task runs.
C1_AtMostOneTask == Cardinality({r \in Requests : TaskActive(r)}) <= 1

\* C6: a request that finds the lock held answers 'already running' and
\* changes nothing else (no task, no status write, no credits, no watchdog);
\* a request acquires the lock only in a step that found it free, and that
\* step leaves it held.
C6_SecondCallIsNoOp ==
    [][\A r \in Requests :
        (pc[r] = "idle" /\ pc'[r] # "idle") =>
            IF Upload \in processingLocks
            THEN /\ pc'[r] = "returned"
                 /\ resp'[r] = "already_running_lock"
                 /\ UNCHANGED <<uploadVars, credits, task, watchdog>>
            ELSE /\ pc'[r] = "read_upload"
                 /\ Upload \in processingLocks'
                 /\ watchdog'[r] = "armed"]_vars

\* a second call has been answered 'already running' while the first call,
\* which holds the lock, is still in flight
C6_Witness ==
    \E r, q \in Requests :
        /\ r # q
        /\ resp[r] = "already_running_lock"
        /\ task[r] = "none"
        /\ watchdog[r] = "none"
        /\ InFlight(q)
        /\ LockHeld

\* C7: a request answered at the status gate ('already running' on
\* processing, 'already done' on distances_done) runs no work and causes no
\* status change, neither when it returns nor later.
C7_GateAnswerHasNoEffect ==
    [][\A r \in Requests :
        resp[r] \in {"already_running", "already_done"} =>
            /\ task'[r] = "none"
            /\ (watchdog[r] = "armed" /\ watchdog'[r] = "firing") => status' = status]_vars

\* C8: a request rejected for invalid rows never sets the status to
\* processing, and leaves the status at its pre-request value.
C8_RejectedDoesNotTransition ==
    /\ [](\A r \in Requests : pc[r] = "set_pending" => status # "processing")
    /\ [][\A r \in Requests :
            (pc[r] = "set_pending" /\ resp'[r] = "rejected") =>
                status' = statusAtStart[r]]_vars

\* C9: when no request is in flight and no task is running, the lock is not
\* held and no watchdog is armed.
C9_QuiescentMeansReleased ==
    (\A r \in Requests : ~InFlight(r) /\ ~TaskActive(r)) =>
        /\ ~LockHeld
        /\ \A r \in Requests : watchdog[r] = "none"

\* C10: every step that changes the status to failed starts from processing.
C10_FailedOnlyFromProcessing ==
    [][(status' = "failed" /\ status # "failed") => status = "processing"]_vars


\* the watchdog of request r elapsed while the task r launched was still
\* running (the task's own finally clears the timer and ends the task in one
\* step, so a running task without a timer is a timed-out one)
TimedOut(r) == pc[r] = "returned" /\ watchdog[r] = "none" /\ task[r] # "none"

\* C5, as stated: when the watchdog of a run elapses before the run
\* completes, the status is failed and the lock free once the timer callback
\* is over, and a request that ends while the timed-out run is still there
\* has started a task.
C5_AsStated ==
    /\ [][\A r \in Requests :
            (watchdog[r] = "firing" /\ watchdog'[r] = "none" /\ task[r] # "none")
            => (status' = "failed" /\ Upload \notin processingLocks')]_vars
    /\ [][\A q \in Requests :
            (pc[q] # "returned" /\ pc'[q] = "returned"
                /\ \E r \in Requests \ {q} : TimedOut(r))
            => (resp'[q] = "launched" /\ task'[q] = "fetch")]_vars

\* C5, amended: the timer callback writes failed or, when that write fails,
\* leaves the status alone, and it releases the lock either way; a request
\* issued while a timed-out run is still there and nobody holds the lock
\* acquires the lock; one that reads the status failed passes the status
\* gates unless the read fails or the caller is not the owner; one whose
\* credits were taken starts a task.
C5_WatchdogFreesUpload ==
    /\ [][\A r \in Requests :
            (watchdog[r] = "armed" /\ watchdog'[r] = "firing")
            => (status' = "failed" \/ status' = status)]_vars
    /\ [][\A r \in Requests :
            (watchdog[r] = "firing" /\ watchdog'[r] = "none")
            => Upload \notin processingLocks']_vars
    /\ [][\A q \in Requests :
            (pc[q] = "idle" /\ pc'[q] # "idle" /\ Upload \notin processingLocks
                /\ \E r \in Requests : TimedOut(r))
            => (pc'[q] = "read_upload" /\ Upload \in processingLocks'
                /\ watchdog'[q] = "armed")]_vars
    /\ [][\A q \in Requests :
            (pc[q] = "read_upload" /\ pc'[q] # "read_upload" /\ status = "failed")
            => (pc'[q] = "set_processing"
                \/ resp'[q] \in {"bad_request", "forbidden"})]_vars
    /\ [][\A q \in Requests :
            (pc[q] = "credit_done" /\ cres[q] = "ok" /\ pc'[q] # "credit_done")
            => (resp'[q] = "launched" /\ task'[q] = "fetch")]_vars

\* the scenario of C5 has happened: the run of r timed out with the status
\* failed, and the request q issued afterwards has started a task
C5_Witness ==
    \E r, q \in Requests :
        /\ r # q
        /\ TimedOut(r)
        /\ resp[q] = "launched"
        /\ task[q] = "fetch"
        /\ watchdog[q] = "armed"
        /\ statusAtStart[q] = "none"
        /\ Upload \in processingLocks


\* the call of r has ended with its update applied
Succeeded(r) == pc[r] = "credit_done" /\ cres[r] = "ok" /\ amount[r] > 0

\* the amounts of r and q each fit the balance and jointly exceed it
FitButJointlyExceed(r, q) ==
    /\ amount[r] > 0 /\ amount[r] <= granted
    /\ amount[q] > 0 /\ amount[q] <= granted
    /\ amount[r] + amount[q] > granted

\* C2: the balance is never negative, and of two concurrent consume calls
\* whose amounts each fit the balance but jointly exceed it at most one
\* succeeds.
C2_BalanceNeverNegative ==
    /\ credits >= 0
    /\ \A r, q \in Requests :
        (r # q /\ FitButJointlyExceed(r, q)) => ~(Succeeded(r) /\ Succeeded(q))

\* both calls read the full balance before either updated it; the update of
\* r went through and the one of q hit no row, so q is about to read again
C2_Witness ==
    \E r, q \in Requests :
        /\ r # q
        /\ FitButJointlyExceed(r, q)
        /\ Succeeded(r)
        /\ pc[q] = "credit_read2"
        /\ current[q] = granted
        /\ credits = granted - amount[r]


\* C3: a resolve whose cache lookup finds a row with status error fails at
\* once with the stored message, and the provider is not called during that
\* resolve.
C3_CachedErrorFailsFast ==
    /\ [][(rpc = "lookup" /\ cached'.status = "error")
            => (rpc' = "done" /\ rres'.kind = "thrown"
                /\ rres'.message = cached'.error_message)]_vars
    /\ [](cached.status = "error" => ~called)

\* e is the end of one tier of the grid and the start of another
IsBoundary(e) ==
    /\ \E i \in DOMAIN tiers : tiers[i].range_end = e
    /\ \E j \in DOMAIN tiers : tiers[j].range_start = e

\* the tier of the grid that starts at e
TierStartingAt(e) == tiers[CHOOSE j \in DOMAIN tiers : tiers[j].range_start = e]

\* C4: a leg whose distance equals a boundary e of a sorted, non-overlapping
\* grid is priced with the tier that starts at e, by both calculatePrice
\* functions.
C4_BoundaryGoesToNextTier ==
    IsBoundary(distanceKm) =>
        /\ ctlPrice.kind \in {"ok", "null"} =>
            (ctlPrice.kind = "ok" /\ ctlPrice.ht = TierStartingAt(distanceKm).price)
        /\ svcPrice.kind \in {"ok", "thrown"} =>
            /\ svcPrice.kind = "ok"
            /\ svcPrice.price_ht = TierStartingAt(distanceKm).price
            /\ svcPrice.applied_range =
                   formatRangeLabel(distanceKm, TierStartingAt(distanceKm).range_end)

\* the letters of an address without their case
CaseFold(c) == IF c \in {"A", "a"} THEN "a" ELSE IF c \in {"W", "w"} THEN "w" ELSE c

\* the words of an address: its maximal runs of non-blank characters, case
\* folded
RECURSIVE Words(_)
Words(s) ==
    IF s = << >> THEN << >>
    ELSE IF Head(s) = " " THEN Words(Tail(s))
    ELSE LET n == CHOOSE k \in 1..Len(s) :
                    /\ \A i \in 1..k : s[i] # " "
                    /\ (k = Len(s) \/ s[k + 1] = " ")
         IN <<[i \in 1..n |-> CaseFold(s[i])]>> \o Words(SubSeq(s, n + 1, Len(s)))

\* a and b differ only in letter case and in leading, trailing or repeated
\* whitespace
SameAddress(a, b) == Words(a) = Words(b)

ReadsBalance(r) == pc[r] \in {"credit_read1", "credit_read2"} /\ pc'[r] # pc[r]

\* the call of r has ended without its update applied
Failed(r) == pc[r] = "credit_done" /\ cres[r] \in {"insufficient", "exhausted", "error"}

\* C17: a consume call whose first read or re-read finds a balance smaller
\* than its amount ends there with the insufficient-credits failure (a read
\* that itself fails ends the call with that error), it ends so only then,
\* and the balance changes only in the step that ends a call successfully.
C17_InsufficientLeavesBalance ==
    /\ [][\A r \in Requests :
            ReadsBalance(r) =>
                /\ credits < amount[r] => cres'[r] \in {"insufficient", "error"}
                /\ cres'[r] = "insufficient" => credits < amount[r]
                /\ cres'[r] # "none" => pc'[r] = "credit_done"]_vars
    /\ [][\A r \in Requests : (~Failed(r) /\ Failed(r)') => credits' = credits]_vars
    /\ [][credits' # credits =>
            \E r \in Requests :
                /\ pc[r] \in {"credit_cas1", "credit_cas2"}
                /\ cres'[r] = "ok"
                /\ credits' = credits - amount[r]]_vars

\* the call of r fitted the initial balance, the call of q took credits
\* first, and r ended with insufficient credits on what was left, untouched
C17_Witness ==
    \E r, q \in Requests :
        /\ r # q
        /\ Succeeded(q)
        /\ pc[r] = "credit_done"
        /\ cres[r] = "insufficient"
        /\ amount[r] <= granted
        /\ credits = granted - amount[q]
        /\ credits < amount[r]

\* the positions of a consume call, in the order of the code
Rank(p) ==
    CASE p = "credit_read1" -> 1
      [] p = "credit_cas1" -> 2
      [] p = "credit_read2" -> 3
      [] p = "credit_cas2" -> 4
      [] p = "credit_done" -> 5
      [] OTHER -> 0

InConsume(r) == Rank(pc[r]) \in 1..4

\* C18: a consume call goes through its two reads and its two conditional
\* updates at most once each and in this order; it reads again only after a
\* first conditional update that hit no row, a second conditional update
\* that hits no row ends the call with the exhausted-concurrency failure,
\* and every call ends.
C18_TwoAttemptsThenEnd ==
    /\ [][\A r \in Requests :
            (InConsume(r) /\ pc'[r] # pc[r]) =>
                /\ Rank(pc'[r]) > Rank(pc[r])
                /\ pc'[r] = "credit_read2" =>
                    (pc[r] = "credit_cas1" /\ credits # current[r])
                /\ (pc[r] = "credit_cas2" /\ credits # current[r]) =>
                    (pc'[r] = "credit_done" /\ cres'[r] \in {"exhausted", "error"})
                /\ cres'[r] = "exhausted" =>
                    (pc[r] = "credit_cas2" /\ credits # current[r])]_vars
    /\ \A r \in Requests : InConsume(r) ~> pc[r] = "credit_done"

\* a call has lost both of its conditional updates
C18_Witness ==
    \E r \in Requests :
        /\ pc[r] = "credit_done"
        /\ cres[r] = "exhausted"
        /\ amount[r] <= granted
        /\ credits < granted

\* the outcome of the call is the one of its provider request: the distance
\* the provider answered, not from the cache, or the provider's error
ProviderOutcome ==
    /\ called
    /\ \/ rres = Returned(meters, FALSE) /\ meters > 0
       \/ rres = Thrown(msg) /\ msg # "null"

\* C19: a cache lookup that times out or errors is a cache miss: the call
\* goes on as it does when there is no row (to the provider request, the API
\* key being set), and when it ends its outcome is the one of the provider
\* request, never a failure of the lookup.
C19_LookupFailureIsAMiss ==
    /\ [][(rpc = "lookup" /\ cached'.status \in {"unavailable", "none"})
            => IF apiKey
               THEN rpc' = "provider" /\ rres' = NoResult
               ELSE rpc' = "done" /\ rres' = Thrown("GOOGLE_MAPS_API_KEY manquante")]_vars
    /\ []((cached.status = "unavailable" /\ rpc = "done" /\ apiKey) => ProviderOutcome)

\* the lookup failed and the call returned the distance the provider
\* answered
C19_Witness ==
    /\ cached.status = "unavailable"
    /\ rpc = "done"
    /\ called
    /\ rres.kind = "returned"
    /\ ~rres.fromCache
    /\ rres.km1000 = meters

\* C20: whatever becomes of the cache write, a call whose provider request
\* answered a valid distance returns that distance, and a call whose
\* provider request failed fails with the provider's error.
C20_CacheWriteNeverChangesOutcome ==
    /\ [][rpc = "upsert_ok"
            => (rpc' = "done" /\ rres' = Returned(meters, FALSE))]_vars
    /\ [][rpc = "upsert_error"
            => (rpc' = "upsert_catch" /\ msg' = msg /\ rres' = NoResult)]_vars
    /\ [][rpc = "upsert_catch"
            => (rpc' = "done" /\ rres' = Thrown(msg))]_vars
    /\ [](rpc = "done" /\ called => ProviderOutcome)

\* the provider answered a distance, the upsert of the ok row failed (the
\* pair still has no row), and the call returned the distance
C20_Witness ==
    /\ rpc = "done"
    /\ called
    /\ rres = Returned(meters, FALSE)
    /\ meters > 0
    /\ routeCache[Key] = NoRow

\* the tiers of the grid that hold d strictly inside their range
StrictlyInside(d) ==
    {i \in DOMAIN tiers :
        /\ tiers[i].range_start < d
        /\ (tiers[i].range_end = Null \/ d < tiers[i].range_end)}

NullLegs == {i \in DOMAIN deliveries : deliveries[i].distance_km = Null}

\* C16: a leg without distance is never priced from a tier: its prices are
\* 0, its tax fields 0 or unset and it has no label, before and after every
\* applyPricingToUpload call; a call that prices the legs of the upload
\* reports as non_priced the number of legs without distance; a leg whose
\* destination address is empty is ADDRESS_NOT_FOUND and has no distance.
C16_NullDistanceNotPriced ==
    /\ \A i \in NullLegs :
          /\ deliveries[i].price_ht = 0
          /\ deliveries[i].price_ttc = 0
          /\ deliveries[i].tva_amount \in {0, Null}
          /\ deliveries[i].tva_rate \in {0, Null}
          /\ deliveries[i].applied_range = NoLabel
    /\ (applyRes.kind = "ok" /\ deliveries # << >>) =>
          /\ applyRes.non_priced = Cardinality(NullLegs)
          /\ applyRes.updated_deliveries = Len(deliveries)
    /\ \A l \in LegInputs :
          TrimEnd(TrimStart(l.destination_address)) = << >> =>
              /\ PrepareLeg(l).status = "ADDRESS_NOT_FOUND"
              /\ PrepareLeg(l).distance_km = Null

\* two legs, one without distance because its address was not found and one
\* that was priced, after a call that reports one leg as not priced
C16_Witness ==
    /\ applyRes.kind = "ok"
    /\ Len(deliveries) = 2
    /\ \E i \in NullLegs : deliveries[i].status = "ADDRESS_NOT_FOUND"
    /\ \E j \in DOMAIN deliveries :
          deliveries[j].distance_km = 75 /\ deliveries[j].price_ht = 1000
    /\ applyRes.non_priced = 1

\* the last two calls returned and were given the same grid
TwiceInARow ==
    /\ Len(applyLog) >= 2
    /\ applyLog[Len(applyLog)].kind = "ok"
    /\ applyLog[Len(applyLog) - 1].kind = "ok"
    /\ applyLog[Len(applyLog)].pricing = applyLog[Len(applyLog) - 1].pricing

WritesDone(r) == task[r] = "write_done" /\ task'[r] = "delete_pending"

\* C11: the status becomes distances_done only in step 7 of a run, and a run
\* takes that step only after it has inserted every one of its legs and
\* written the client counts; the step sets the upload's total legs to the
\* number of input legs of the run and its total clients to the number of
\* client groups.
C11_DoneAfterLegsAndCounts ==
    /\ [][(status' = "distances_done" /\ status # "distances_done")
            => \E r \in Requests : WritesDone(r)]_vars
    /\ [][\A r \in Requests :
            WritesDone(r) =>
                /\ status' = "distances_done"
                /\ run[r].inserted = run[r].legs
                /\ run[r].counted
                /\ uploadTotals'.total_deliveries = run[r].legs
                /\ uploadTotals'.total_clients = run[r].clients]_vars

\* a run has just written distances_done for its legs
C11_Witness ==
    \E r \in Requests :
        /\ task[r] = "delete_pending"
        /\ status = "distances_done"
        /\ run[r].legs >= 1
        /\ run[r].inserted = run[r].legs
        /\ uploadTotals.total_deliveries = run[r].legs
        /\ uploadTotals.total_clients = run[r].clients

\* C12: whenever the status is distances_done, the legs table holds as many
\* legs as the run that wrote the status had input legs, one for each.
C12_LegsReplacedNotAppended ==
    status = "distances_done" => legRows = uploadTotals.total_deliveries

\* the call under way was given two addresses that are not empty
NonEmptyPair == Key[1] # << >> /\ Key[2] # << >>

KeyMissing == Thrown("GOOGLE_MAPS_API_KEY manquante")

\* C21 as stated: without API key every call for a non-empty pair of
\* addresses fails with the missing-key error, whatever the cache holds.
C21_AsStated ==
    (rpc = "done" /\ ~apiKey /\ NonEmptyPair) => rres = KeyMissing

\* C21: without API key a call for a non-empty pair of addresses returns the
\* distance of the pair's cache row when the lookup finds an ok row with a
\* positive distance, and fails with the missing-key error in every other
\* case (no row, an error row, an ok row without distance, a lookup that
\* failed); the provider is never called.
C21_NoKeyFailsUnlessCached ==
    (rpc = "done" /\ ~apiKey /\ NonEmptyPair) =>
        /\ ~called
        /\ IF cached.status = "ok" /\ cached.distance_meters > 0
           THEN rres = Returned(cached.distance_meters, TRUE)
           ELSE rres = KeyMissing

\* without API key, a call was answered from the cache row an earlier process
\* had stored
C21_Witness ==
    /\ rpc = "done"
    /\ ~apiKey
    /\ NonEmptyPair
    /\ cached.status = "ok"
    /\ rres = Returned(cached.distance_meters, TRUE)

\* no row of the grid p has a usable start and price
NoUsableTier(p) == \A i \in DOMAIN p : p[i].range_start < 0 \/ p[i].price < 0

\* a call of applyPricingToUpload ends in this step
ApplyEnds == Len(applyLog') = Len(applyLog) + 1

\* C22: a call of applyPricingToUpload whose grid has no row with a usable
\* start and price fails with 'Grille invalide' and changes nothing: the
\* stored grid, the legs, the clients' totals and the upload's totals are as
\* before the call; the call fails that way for no other grid.
C22_InvalidGridChangesNothing ==
    [][ApplyEnds =>
          /\ NoUsableTier(applyRes'.pricing) =>
                /\ applyRes'.kind = "thrown"
                /\ applyRes'.message = "Grille invalide"
                /\ pricing_config' = pricing_config
                /\ deliveries' = deliveries
                /\ clients' = clients
                /\ uploadTotals' = uploadTotals
          /\ (applyRes'.kind = "thrown" /\ applyRes'.message = "Grille invalide")
                => NoUsableTier(applyRes'.pricing)]_vars

\* a grid of one unusable row was refused after the scenario grid had been
\* applied to the legs of the upload
C22_Witness ==
    /\ Len(applyLog) = 2
    /\ applyLog[1].kind = "ok"
    /\ applyLog[2] = [kind |-> "thrown", pricing |-> <<BadTier>>, message |-> "Grille invalide"]
    /\ getPricingConfigForUpload(Upload) = ScenarioTiers
    /\ \E i \in DOMAIN deliveries : deliveries[i].price_ht = 1000

\* no tier of the grid holds d in its range, range ends being exclusive
NoTierMatches(d) ==
    \A i \in DOMAIN tiers :
        ~(tiers[i].range_start <= d /\ (tiers[i].range_end = Null \/ d < tiers[i].range_end))

\* the tier of the grid with the lowest start
LowestTier == SortByStart(tiers)[1]

\* C23: a leg with a resolved distance that no tier of the grid matches is
\* priced with the tier of lowest start, by both calculatePrice functions,
\* and is not left without price.
C23_FallbackToFirstTier ==
    (distanceKm > 0 /\ tiers # << >> /\ NoTierMatches(distanceKm)) =>
        /\ ctlPrice # NotComputed =>
              (ctlPrice.kind = "ok" /\ ctlPrice.ht = LowestTier.price)
        /\ svcPrice # NotComputed =>
              (svcPrice.kind = "ok" /\ svcPrice.price_ht = LowestTier.price)

\* ---------------------------------------------------------------- C24
\* the legs the loop has prepared whose resolver call reached the provider
ProviderLegs == {i \in DOMAIN prepLog : prepLog[i].provider}

\* C24: within one run, every resolver call that was not a cache hit (the
\* provider was contacted, whether it succeeded or failed) is followed by
\* the fixed delay before the next resolver call, and no delay follows a
\* cache hit.
C24_DelayAfterEveryProviderCall ==
    \A i \in DOMAIN prepLog :
        /\ prepLog[i].provider => prepLog[i].delayed
        /\ prepLog[i].fromCache => ~prepLog[i].delayed

\* ---------------------------------------------------------------- C30
\* the leg has no origin or no destination once trimmed
EmptyAddress(l) == originOf(l) = << >> \/ destinationOf(l) = << >>

\* C30: a prepared leg has status DISTANCE_OK exactly when its distance is
\* non-null and positive; an empty origin or destination yields
\* ADDRESS_NOT_FOUND with a null distance and no resolver call; a
\* non-positive resolver result yields ADDRESS_NOT_FOUND; a resolver
\* exception yields CALCULATION_ERROR with a null distance and the loop goes
\* on: when it ends, every leg has its row.
C30_LegStatusFromOutcome ==
    /\ \A i \in DOMAIN deliveriesRowsToInsert :
          LET row == deliveriesRowsToInsert[i]
          IN /\ row.status = "DISTANCE_OK" <=> (row.distance_km # Null /\ row.distance_km > 0)
             /\ EmptyAddress(legs[i]) =>
                   /\ row.status = "ADDRESS_NOT_FOUND"
                   /\ row.distance_km = Null
                   /\ ~prepLog[i].resolver
             /\ prepLog[i].outcome = "thrown" =>
                   /\ row.status = "CALCULATION_ERROR"
                   /\ row.distance_km = Null
    /\ Len(deliveriesRowsToInsert) <= Len(legs)
    /\ ppc = "prepared" => Len(deliveriesRowsToInsert) = Len(legs)
    /\ \A l \in LegInputs :
          (~EmptyAddress(l) /\ l.result.kind = "returned" /\ l.result.km1000 <= 0) =>
              /\ PrepareRow(l, 1).status = "ADDRESS_NOT_FOUND"
              /\ PrepareRow(l, 1).distance_km = Null

\* a loop that ended after a resolver exception on its first leg and a
\* distance on its second
C30_Witness ==
    /\ ppc = "prepared"
    /\ Len(legs) = 2
    /\ deliveriesRowsToInsert[1].status = "CALCULATION_ERROR"
    /\ prepLog[1].outcome = "thrown"
    /\ deliveriesRowsToInsert[2].status = "DISTANCE_OK"
    /\ deliveriesRowsToInsert[2].distance_km > 0

\* ---------------------------------------------------------------- C25
\* C25: under fair scheduling of task steps and of the watchdog, and with
\* the datastore accepting writes, every upload whose status becomes
\* processing eventually has status distances_done or failed (stated for the
\* status processing a request wrote, the intake of the file being over).
C25_ProcessingEndsDoneOrFailed ==
    (ingest = "done" /\ status = "processing")
        ~> (status \in {"distances_done", "failed"})

\* ---------------------------------------------------------------- C26
\* a request other than r that acquired the lock after the watchdog of r
\* released it, and still holds it: it is in flight, or its task is running
\* under its own watchdog
LaterHolder(r) ==
    /\ LockHeld
    /\ \E q \in Requests \ {r} : InFlight(q) \/ (TaskActive(q) /\ watchdog[q] = "armed")

\* C26: the completion of a task whose lock the watchdog already released is
\* a no-op on the lock: it does not release the lock a later request has
\* acquired since.
C26_CompletionKeepsLaterLock ==
    [][\A r \in Requests :
        (TimedOut(r) /\ LaterHolder(r) /\ task'[r] = "none") => LockHeld']_vars

\* ---------------------------------------------------------------- C27
\* C27: rounding to 2 decimals is applied after each arithmetic step, so for
\* every tier the stored amounts satisfy priceInclTax = priceExclTax + tax
\* exactly, priceExclTax and tax being the stored rounded values.
C27_InclTaxIsExclPlusTax ==
    quote.result.kind = "ok" =>
        quote.result.price_ttc = quote.result.price_ht + quote.result.tva_amount

\* ---------------------------------------------------------------- C28
\* the rows of the grid p that have a usable start and price, by range start
UsableTiers(p) ==
    SortByStart(SelectSeq(p, LAMBDA t : t.range_start >= 0 /\ t.price >= 0))

\* C28: after a successful applyPricingToUpload the stored tier list of the
\* upload is exactly the usable tiers of the input, no tier of an earlier
\* call remaining, and the tier lists of other uploads are unchanged.
C28_TierListReplaced ==
    [][(ApplyEnds /\ applyRes'.kind = "ok") =>
          /\ configOf(pricing_config', Upload) = UsableTiers(applyRes'.pricing)
          /\ configOf(pricing_config', OtherUpload) = configOf(pricing_config, OtherUpload)]_vars

\* the scenario grid was applied, then a grid of one usable row: that row is
\* the stored list, and the other upload has its grid
C28_Witness ==
    /\ Len(applyLog) = 2
    /\ applyLog[1].kind = "ok"
    /\ applyLog[1].pricing = ScenarioTiers
    /\ applyLog[2].kind = "ok"
    /\ applyLog[2].pricing = <<BadTier, FlatTier>>
    /\ getPricingConfigForUpload(Upload) = <<FlatTier>>
    /\ getPricingConfigForUpload(OtherUpload) = <<FlatTier>>

\* ---------------------------------------------------------------- C29
\* the stored prices of the legs, without and with tax
StoredHT == [i \in DOMAIN deliveries |-> deliveries[i].price_ht]
StoredTTC == [i \in DOMAIN deliveries |-> deliveries[i].price_ttc]

\* C29: after a successful applyPricingToUpload every client of the upload
\* has a leg count equal to the number of its legs in the table and HT and
\* TTC totals equal to the sums of the stored prices of its legs, and the
\* total amount of the upload is the sum of the stored prices with tax of all
\* its legs, whatever the totals were before the call.
C29_TotalsRecomputedFromLegs ==
    applyRes.kind = "ok" =>
        /\ \A c \in DOMAIN clients :
              /\ clients[c].total_deliveries = Cardinality(LegsOf(deliveries, c))
              /\ clients[c].total_amount_ht = SumOver(LegsOf(deliveries, c), StoredHT)
              /\ clients[c].total_amount_ttc = SumOver(LegsOf(deliveries, c), StoredTTC)
        /\ uploadTotals.total_amount = SumOver(DOMAIN deliveries, StoredTTC)
        /\ uploadTotals.total_deliveries = Len(deliveries)

\* the flat grid applied after the scenario grid to two priced legs of one
\* client, whose totals were those of the scenario grid before the call
C29_Witness ==
    /\ Len(applyLog) = 2
    /\ applyLog[1].kind = "ok"
    /\ applyLog[1].pricing = ScenarioTiers
    /\ applyLog[2].kind = "ok"
    /\ applyLog[2].pricing = <<FlatTier>>
    /\ Len(deliveries) = 2
    /\ \E c \in DOMAIN clients :
          /\ LegsOf(deliveries, c) = {1, 2}
          /\ clients[c].total_amount_ht = 2 * FlatTier.price
          /\ uploadTotals.total_amount = clients[c].total_amount_ttc
          /\ uploadTotals.total_amount > 0

\* ---------------------------------------------------------------- C31
\* the steps of a run that may fail

\* nothing but the task of r is under way: no request in flight, no other
\* task, no timer callback
Alone(r) ==
    /\ \A q \in Requests : ~InFlight(q) /\ watchdog[q] # "firing"
    /\ \A q \in Requests \ {r} : ~TaskActive(q)

\* the task of r ends in this step, after a step of its run failed
EndsFailed(r) == task[r] = "ctl_failed" /\ task'[r] = "none"

\* C31, as stated: when a step of a run fails with an unrecoverable error no
\* later step of the run is executed and the status of the upload becomes
\* failed: it is failed when the task ends, nothing else being under way.
C31_AsStated ==
    [][\A r \in Requests : (EndsFailed(r) /\ Alone(r)) => status' = "failed"]_vars

\* C31: when a step of a run fails no later step of the run is executed (no
\* leg is deleted or inserted, no count written, no pending row deleted) and
\* each of the two catch blocks writes the status failed, the status staying
\* as it was when the datastore rejects that write.
C31_FailedStepAbortsRun ==
    [][\A r \in Requests :
        (task[r] \in {"ps_failed", "ctl_failed"} /\ task'[r] # task[r]) =>
            /\ task'[r] = (IF task[r] = "ps_failed" THEN "ctl_failed" ELSE "none")
            /\ legRows' = legRows
            /\ pendingValid' = pendingValid
            /\ pendingInvalid' = pendingInvalid
            /\ task[r] = "ps_failed" => run'[r] = run[r]
            /\ status' \in {"failed", status}]_vars

\* a run that failed before it had inserted its legs is in the catch of the
\* controller, and the status is failed
C31_Witness ==
    \E r \in Requests :
        /\ resp[r] = "launched"
        /\ task[r] = "ctl_failed"
        /\ run[r].rows > 0
        /\ run[r].inserted = 0
        /\ ~run[r].counted
        /\ status = "failed"

\* ---------------------------------------------------------------- C32
\* C32: credit decrements are atomic and none is lost: whatever consume
\* calls have run concurrently on the account, the balance is the initial
\* balance minus the sum of the amounts of exactly the calls that returned
\* success, and a call that has not returned success has taken nothing.
C32_NoLostDecrement ==
    /\ [](credits = granted - spent)
    /\ [][credits' # credits =>
            \E r \in Requests : cres[r] # "ok" /\ cres'[r] = "ok"]_vars

\* two calls that overlapped have both returned success, the second after
\* its first conditional update had hit no row
C32_Witness ==
    \E r, q \in Requests :
        /\ r # q
        /\ Succeeded(r)
        /\ Succeeded(q)
        /\ spent = amount[r] + amount[q]
        /\ credits = granted - amount[r] - amount[q]

\* ---------------------------------------------------------------- C33
\* origin_norm and destination_norm of a leg
LegKey(l) == <<normalizeAddress(originOf(l)), normalizeAddress(destinationOf(l))>>

\* the resolve before the one under way missed the cache, got a valid
\* distance from the provider, and route_cache holds it as an ok row
MissedAndStored ==
    /\ Len(prepLog) >= 1
    /\ legIndex <= Len(legs)
    /\ prepLog[Len(prepLog)].outcome = "returned"
    /\ ~prepLog[Len(prepLog)].fromCache
    /\ prepLog[Len(prepLog)].provider
    /\ routeCache[LegKey(legs[Len(prepLog)])].status = "ok"
    /\ routeCache[LegKey(legs[Len(prepLog)])].distance_meters =
           deliveriesRowsToInsert[Len(prepLog)].distance_km

\* C33: a resolve that finds a cached row with status ok returns that row's
\* distance with fromCache = true and does not call the provider; after a
\* resolve that missed the cache, got a valid distance from the provider and
\* stored it, the next resolve of the same normalized pair, finding the row,
\* returns the same kilometres from the cache with no provider call.
C33_CacheHitReturnsStoredKm ==
    /\ [][(rpc = "lookup" /\ rpc' # "lookup" /\ cached'.status = "ok") =>
            /\ rpc' = "done"
            /\ rres' = Returned(routeCache[Key].distance_meters, TRUE)
            /\ ~called'
            /\ routeCache' = routeCache]_vars
    /\ []((/\ MissedAndStored
           /\ ppc = "await"
           /\ rpc = "done"
           /\ LegKey(legs[legIndex]) = LegKey(legs[Len(prepLog)])
           /\ cached.status = "ok") =>
              /\ rres = Returned(deliveriesRowsToInsert[Len(prepLog)].distance_km, TRUE)
              /\ ~called)

\* two legs whose addresses differ in letter case only: the first was
\* resolved by the provider, the second from the cache with the same distance
C33_Witness ==
    /\ ppc = "prepared"
    /\ Len(legs) = 2
    /\ legs[1].destination_address # legs[2].destination_address
    /\ LegKey(legs[1]) = LegKey(legs[2])
    /\ prepLog[1].provider /\ ~prepLog[1].fromCache /\ prepLog[1].outcome = "returned"
    /\ ~prepLog[2].provider /\ prepLog[2].fromCache
    /\ deliveriesRowsToInsert[2].distance_km = deliveriesRowsToInsert[1].distance_km
    /\ deliveriesRowsToInsert[2].distance_km > 0

\* ---------------------------------------------------------------- C34
\* C34: after a run that ends in distances_done, each client's stored leg
\* count equals the number of legs persisted for that client in that run.
C34_ClientCountIsLegsPersisted ==
    ppc = "distances_done" =>
        \A c \in DOMAIN clients :
            clients[c].total_deliveries = Cardinality(LegsOf(deliveries, c))

\* ---------------------------------------------------------------- C35
\* the step that starts the background task of request r
TaskStarts(r) == task[r] = "none" /\ task'[r] # "none"

\* the consume call of request r returns success in this step
ConsumeSucceeds(r) == cres[r] # "ok" /\ cres'[r] = "ok"

\* C35: a background task is started only after credits equal to the number
\* of legs to process have been successfully consumed: the step that starts
\* the task is taken by a request whose consume call has returned success for
\* the number of legs the task is given, that success took exactly that
\* number from the balance, the task takes its first step only once started,
\* and a request whose consume call failed ends without a task.
C35_TaskOnlyAfterConsume ==
    /\ [][\A r \in Requests :
            /\ TaskStarts(r) =>
                  /\ pc[r] = "credit_done"
                  /\ cres[r] = "ok"
                  /\ task'[r] = "fetch"
                  /\ run'[r].legs = amount[r]
            /\ (ConsumeSucceeds(r) /\ amount'[r] > 0) => credits' = credits - amount'[r]
            /\ (pc[r] = "credit_done" /\ cres[r] # "ok" /\ pc'[r] # pc[r]) =>
                  /\ task'[r] = "none"
                  /\ resp'[r] # "launched"]_vars
    /\ [](\A r \in Requests :
            /\ task[r] # "none" => resp[r] = "launched"
            /\ (pc[r] = "credit_done" /\ cres[r] = "ok") => spent >= amount[r])

\* a task at its first step, started by a request that paid for its legs
C35_Witness ==
    \E r \in Requests :
        /\ task[r] = "fetch"
        /\ resp[r] = "launched"
        /\ run[r].legs > 0
        /\ spent >= run[r].legs
        /\ credits = granted - spent

\* ---------------------------------------------------------------- C36
\* C36: once the watchdog has forced an upload to failed, the later
\* completion of the timed-out task does not change the upload's status: no
\* step of a timed-out task, taken while no request is being handled and no
\* other task runs, takes the status away from failed.
C36_TimedOutTaskKeepsFailed ==
    [][\A r \in Requests :
        (TimedOut(r) /\ Alone(r) /\ status = "failed" /\ task'[r] # task[r]) =>
            status' = "failed"]_vars

\* ---------------------------------------------------------------- C37
\* C37, as stated: a route cache entry with status ok is never replaced by
\* an entry with status error: a key that holds an ok row still holds an ok
\* row after every step.
C37_AsStated ==
    [][\A k \in Keys : routeCache[k].status = "ok" => routeCache'[k].status = "ok"]_vars

\* C37, amended: a resolve that found the ok row writes nothing to the cache
\* and ends there; an ok row is changed only by a resolve that did not get
\* that row from its lookup and went on to the provider, and when that
\* resolve stores an error row the row keeps its distance.
C37_OkReplacedOnlyAfterFailedLookup ==
    /\ [][\A k \in Keys :
            (routeCache[k].status = "ok" /\ routeCache'[k] # routeCache[k]) =>
                /\ k = Key
                /\ called
                /\ cached.status # "ok"
                /\ routeCache'[k].status \in {"ok", "error"}
                /\ routeCache'[k].status = "error" =>
                      routeCache'[k].distance_meters = routeCache[k].distance_meters]_vars
    /\ [](cached.status = "ok" => (rpc = "done" /\ ~called))

\* an ok row became an error row: the lookup of the resolve had failed and
\* the provider then gave no distance
C37_Witness ==
    /\ rpc = "done"
    /\ rres.kind = "thrown"
    /\ called
    /\ cached = Unavailable
    /\ routeCache[Key].status = "error"
    /\ routeCache[Key].distance_meters > 0

\* ---------------------------------------------------------------- C38
\* requests, tasks and watchdogs under the fairness of the event loop, the
\* datastore failing when it wants to
SpecFaultsFair ==
    /\ Init
    /\ [][Next]_vars
    /\ WF_vars(IntakeStep)
    /\ \A r \in Requests :
          WF_vars(RequestStep(r)) /\ WF_vars(TaskStep(r)) /\ WF_vars(WatchdogStep(r))

\* C38: under fair scheduling of the steps of requests and tasks and of the
\* watchdog, every lock acquired by a startProcessing request is eventually
\* released: no behaviour holds the lock of an upload forever.
C38_LockEventuallyReleased == LockHeld ~> ~LockHeld

\* a request rejected for its invalid rows returned without releasing the
\* lock, and its watchdog released it later
C38_Witness ==
    \E r \in Requests :
        /\ pc[r] = "returned"
        /\ resp[r] = "rejected"
        /\ watchdog[r] = "none"
        /\ task[r] = "none"
        /\ ~LockHeld

\* ---------------------------------------------------------------- C39
\* the consume call of request r failed for want of credits or after two
\* lost updates, and the request takes its next step
CreditFailureHandled(r) ==
    /\ pc[r] = "credit_done"
    /\ cres[r] \in {"insufficient", "exhausted"}
    /\ pc'[r] # pc[r]

\* what the request leaves whatever the datastore does
EndsClean(r) ==
    /\ pc'[r] = "returned"
    /\ resp'[r] \in {"insufficient_credits", "bad_request"}
    /\ task'[r] = "none"
    /\ Upload \notin processingLocks'
    /\ watchdog'[r] = "none"
    /\ credits' = credits

\* C39, as stated: when credit consumption fails in startProcessing, the
\* request ends with no task started, the lock released, the watchdog
\* disarmed, the balance unchanged and the upload's status set to ready.
C39_AsStated ==
    [][\A r \in Requests : CreditFailureHandled(r) => (EndsClean(r) /\ status' = "ready")]_vars

\* C39, amended: the status is ready unless the datastore rejects that
\* write, in which case it stays as it was; the rest holds in every case,
\* and no step of a consume call that fails changes the balance.
C39_CreditFailureEndsRequest ==
    [][\A r \in Requests :
        /\ CreditFailureHandled(r) => (EndsClean(r) /\ status' \in {"ready", status})
        /\ (InConsume(r) /\ cres'[r] \in {"insufficient", "exhausted"}) => credits' = credits]_vars

\* a request refused for want of credits: the upload is ready again, nobody
\* holds the lock, no timer is armed and nothing was taken
C39_Witness ==
    \E r \in Requests :
        /\ pc[r] = "returned"
        /\ resp[r] = "insufficient_credits"
        /\ task[r] = "none"
        /\ watchdog[r] = "none"
        /\ ~LockHeld
        /\ status = "ready"
        /\ spent = 0
        /\ credits = granted

====
